---- MODULE Spec2Model ----
(***************************************************************************)
(* TokenFactory (src/BondingCurveSEI.sol) and its Token                    *)
(* (src/unnamed/part_004): the bonding-curve ledger, its fixed-point       *)
(* pricing, the re-entrancy guard and the graduation to the pool.          *)
(*                                                                         *)
(* uint256 values are far wider than TLC's integers, so every uint256 is   *)
(* a natural number written in base 1000: a sequence of limbs 0..999,      *)
(* least significant first, without leading zero limbs (zero is << >>).    *)
(* The arithmetic below is exact; the EVM's checked arithmetic is modelled *)
(* by comparing against 2^256 - 1 where the code can reach it.             *)
(***************************************************************************)
EXTENDS Integers, Sequences, FiniteSets, TLC

\* ------------------------------------------------------------ uint256
Base == 10 ^ 3

RECURSIVE Norm(_)
Norm(a) == IF a = << >> THEN a
           ELSE IF a[Len(a)] = 0 THEN Norm(SubSeq(a, 1, Len(a) - 1)) ELSE a

RECURSIVE FromNat(_)
FromNat(n) == IF n = 0 THEN << >> ELSE <<n % Base>> \o FromNat(n \div Base)

Limb(a, i) == IF i <= Len(a) THEN a[i] ELSE 0

Max2(m, n) == IF m >= n THEN m ELSE n

\* -1, 0, 1 as a < b, a = b, a > b
RECURSIVE CmpFrom(_, _, _)
CmpFrom(a, b, i) ==
    IF i = 0 THEN 0
    ELSE IF a[i] < b[i] THEN -1
    ELSE IF a[i] > b[i] THEN 1
    ELSE CmpFrom(a, b, i - 1)

Cmp(a, b) == IF Len(a) < Len(b) THEN -1
             ELSE IF Len(a) > Len(b) THEN 1
             ELSE CmpFrom(a, b, Len(a))

Lt(a, b) == Cmp(a, b) < 0
Le(a, b) == Cmp(a, b) <= 0
Gt(a, b) == Cmp(a, b) > 0
Ge(a, b) == Cmp(a, b) >= 0

\* carry propagation over a sequence of non-negative limb sums
RECURSIVE Carry(_, _, _)
Carry(s, i, c) ==
    IF i > Len(s)
    THEN FromNat(c)
    ELSE <<(s[i] + c) % Base>> \o Carry(s, i + 1, (s[i] + c) \div Base)

Add(a, b) ==
    Norm(Carry([i \in 1..Max2(Len(a), Len(b)) |-> Limb(a, i) + Limb(b, i)], 1, 0))

\* a - b for a >= b
RECURSIVE Borrow(_, _, _, _)
Borrow(a, b, i, c) ==
    IF i > Len(a) THEN << >>
    ELSE LET d == a[i] - Limb(b, i) - c
         IN  IF d < 0 THEN <<d + Base>> \o Borrow(a, b, i + 1, 1)
                      ELSE <<d>> \o Borrow(a, b, i + 1, 0)

Sub(a, b) == Norm(Borrow(a, b, 1, 0))

\* the sum of a[i] * b[k - i + 1] over the i from lo to hi
RECURSIVE Conv(_, _, _, _, _)
Conv(a, b, k, lo, hi) ==
    IF lo > hi THEN 0 ELSE a[lo] * b[k - lo + 1] + Conv(a, b, k, lo + 1, hi)

\* the limbs of a * b from position k up, with the carry c into position k
RECURSIVE MulFrom(_, _, _, _)
MulFrom(a, b, k, c) ==
    IF k > Len(a) + Len(b) - 1 THEN FromNat(c)
    ELSE LET v == c + Conv(a, b, k, Max2(1, k - Len(b) + 1),
                           IF k < Len(a) THEN k ELSE Len(a))
         IN  <<v % Base>> \o MulFrom(a, b, k + 1, v \div Base)

Mul(a, b) == IF a = << >> \/ b = << >> THEN << >> ELSE MulFrom(a, b, 1, 0)

\* floor(a / n) for a small n (n * Base within TLC's integers)
RECURSIVE DivSmallFrom(_, _, _, _)
DivSmallFrom(a, n, i, r) ==
    IF i = 0 THEN << >>
    ELSE LET cur == r * Base + a[i]
         IN  DivSmallFrom(a, n, i - 1, cur % n) \o <<cur \div n>>

DivSmall(a, n) == Norm(DivSmallFrom(a, n, Len(a), 0))

\* floor(a / Base^k)
ShiftRight(a, k) == IF Len(a) <= k THEN << >> ELSE SubSeq(a, k + 1, Len(a))

\* the largest d in lo..hi with d * b <= r (lo * b <= r is known)
RECURSIVE QuotDigit(_, _, _, _)
QuotDigit(r, b, lo, hi) ==
    IF lo = hi THEN lo
    ELSE LET mid == (lo + hi + 1) \div 2
         IN  IF Le(Mul(FromNat(mid), b), r)
             THEN QuotDigit(r, b, mid, hi)
             ELSE QuotDigit(r, b, lo, mid - 1)

\* the value of the limbs of a from position i up (at most three of them)
TopFrom(a, i) ==
    IF i < 1 THEN (Limb(a, 2) * Base + Limb(a, 1)) * Base
    ELSE (Limb(a, i + 2) * Base + Limb(a, i + 1)) * Base + Limb(a, i)

\* floor(cur / b) for 0 < b and cur < Base * b: the leading limbs of cur and b
\* bound the digit from below and above, QuotDigit decides between the bounds
DivStep(cur, b) ==
    LET n  == Len(b)
        ct == TopFrom(cur, n - 1)
        bt == TopFrom(b, n - 1)
        hi == IF ct \div bt > Base - 1 THEN Base - 1 ELSE ct \div bt
        lo == ct \div (bt + 1)
    IN  QuotDigit(cur, b, lo, hi)

\* long division: floor(a / b) for b > 0
RECURSIVE DivFrom(_, _, _, _)
DivFrom(a, b, i, r) ==
    IF i = 0 THEN << >>
    ELSE LET cur == Norm(<<a[i]>> \o r)
             d   == DivStep(cur, b)
         IN  DivFrom(a, b, i - 1, Sub(cur, Mul(FromNat(d), b))) \o <<d>>

Div(a, b) == Norm(DivFrom(a, b, Len(a), << >>))

Square(a) == Mul(a, a)

Zero == << >>
One == <<1>>
\* type(uint256).max = 2 ^ 256 - 1, with 2 ^ 256 = (((2 ^ 16) ^ 2) ^ 2 ^ 2) ^ 2
MAX_UINT256 == Sub(Square(Square(Square(Square(FromNat(65536))))), One)

\* ------------------------------------------------------------ bounds
MaxTokens == 2      \* assets that can be created
MaxOps == 3         \* top-level calls in a run
CacheSpan == 20     \* whole-token supplies next to 0 and to the cap with exp precomputed

\* ------------------------------------------------------------ constants
DECIMALS == <<0, 0, 0, 0, 0, 0, 1>>                 \* 10 ** 18
DecimalsLimbs == Len(DECIMALS) - 1                  \* 10 ** 18 = Base ^ 6
INITIAL_PRICE == <<590, 22, 737, 755, 400, 11>>     \* 11_400_755_737_022_590
K == <<591, 993, 862, 900, 4>>                      \* 4_900_862_993_591
FEE_BPS == 100
BPS_DENOMINATOR == 10000
MAX_SUPPLY == Mul(FromNat(1000000), DECIMALS)
INIT_SUPPLY == DivSmall(Mul(MAX_SUPPLY, FromNat(20)), 100)
MEMECOIN_FUNDING_GOAL == Mul(FromNat(115000), DECIMALS)
MEMETOKEN_CREATION_FEE == <<0, 0, 0, 0, 1>>         \* 0.000001 ether = 10 ** 12
ExpTerms == 20

\* ------------------------------------------------------------ curve math
\* floor(a / 10 ** 18)
DivDecimals(a) == ShiftRight(a, DecimalsLimbs)

\* <<term, sum>> when the loop of exp leaves iteration i (or has left the loop
\* before it, on the break: term is then 0 and the pair no longer changes).
\* term * x / (i * DECIMALS) is computed as floor(floor(term * x / DECIMALS) / i),
\* which is the same number.
RECURSIVE expLoop(_, _)
expLoop(xx, i) ==
    IF i = 0 THEN <<DECIMALS, DECIMALS>>
    ELSE LET prev == expLoop(xx, i - 1)
         IN  IF prev[1] = Zero THEN prev
             ELSE LET term == DivSmall(DivDecimals(Mul(prev[1], xx)), i)
                  IN  <<term, Add(prev[2], term)>>

\* K * raw / DECIMALS
Exponent(raw) == DivDecimals(Mul(K, raw))

Tokens(n) == Mul(FromNat(n), DECIMALS)

\* exp is evaluated once for the exponents of the whole-token supplies next to
\* the two ends of the curve; any other argument goes through the loop
CachedSupplies == (0..CacheSpan) \cup ((800000 - CacheSpan)..800000)
ExpCache ==
    [xx \in {Exponent(Tokens(n)) : n \in CachedSupplies}
        |-> expLoop(xx, ExpTerms)[2]]

\* an exp whose sum is kept in 64 bits
expNarrow(xx) ==
    LET full == expLoop(xx, ExpTerms)[2]
        wide == Square(Square(FromNat(65536)))
    IN  Sub(full, Mul(Div(full, wide), wide))

exp(xx) == IF xx \in DOMAIN ExpCache THEN ExpCache[xx] ELSE expLoop(xx, ExpTerms)[2]

\* a cost priced from the start of the curve, whatever the current supply
costFromZero(currentRaw, amountRaw) ==
    Div(Mul(INITIAL_PRICE, Sub(exp(Exponent(amountRaw)), exp(Zero))), K)

\* a cost whose exponents are scaled down once too often
costOverscaled(currentRaw, amountRaw) ==
    Div(Mul(INITIAL_PRICE,
            Sub(exp(DivDecimals(Exponent(Add(currentRaw, amountRaw)))),
                exp(DivDecimals(Exponent(currentRaw))))), K)

calculateCost(currentRaw, amountRaw) ==
    LET exponent1 == DivDecimals(Mul(K, Add(currentRaw, amountRaw)))
        exponent0 == DivDecimals(Mul(K, currentRaw))
        exp1 == exp(exponent1)
        exp0 == exp(exponent0)
    IN  Div(Mul(INITIAL_PRICE, Sub(exp1, exp0)), K)

\* a refund that divides the difference by K before it multiplies by the price
refundDividedFirst(currentRaw, amountRaw) ==
    LET exponent1 == DivDecimals(Mul(K, currentRaw))
        exponent0 == DivDecimals(Mul(K, Sub(currentRaw, amountRaw)))
        exp1 == exp(exponent1)
        exp0 == exp(exponent0)
    IN  Mul(INITIAL_PRICE, Div(Sub(exp1, exp0), K))

calculateRefund(currentRaw, amountRaw) ==
    LET exponent1 == DivDecimals(Mul(K, currentRaw))
        exponent0 == DivDecimals(Mul(K, Sub(currentRaw, amountRaw)))
        exp1 == exp(exponent1)
        exp0 == exp(exponent0)
    IN  Div(Mul(INITIAL_PRICE, Sub(exp1, exp0)), K)

\* calculateCost and calculateRefund are evaluated once for the pairs of cached
\* whole-token supplies; any other arguments go through the formulas
CachedPairs == {p \in CachedSupplies \X CachedSupplies : p[1] <= p[2]}

CostCache ==
    [k \in {<<Tokens(p[1]), Tokens(p[2] - p[1])>> : p \in CachedPairs}
        |-> calculateCost(k[1], k[2])]

RefundCache ==
    [k \in {<<Tokens(p[2]), Tokens(p[2] - p[1])>> : p \in CachedPairs}
        |-> calculateRefund(k[1], k[2])]

Cost(currentRaw, amountRaw) ==
    IF <<currentRaw, amountRaw>> \in DOMAIN CostCache
    THEN CostCache[<<currentRaw, amountRaw>>]
    ELSE calculateCost(currentRaw, amountRaw)

\* a refund priced as the next buy would be, upwards from the current supply
refundAsNextBuy(currentRaw, amountRaw) == calculateCost(currentRaw, amountRaw)

Refund(currentRaw, amountRaw) ==
    IF <<currentRaw, amountRaw>> \in DOMAIN RefundCache
    THEN RefundCache[<<currentRaw, amountRaw>>]
    ELSE calculateRefund(currentRaw, amountRaw)

\* a fee of a tenth
tenthFee(amount) == DivSmall(amount, 10)

\* fee = amount * FEE_BPS / BPS_DENOMINATOR
TradingFee(amount) == DivSmall(Mul(amount, FromNat(FEE_BPS)), BPS_DENOMINATOR)

\* ------------------------------------------------------------ addresses
Owner == "owner"                    \* the deployer
Users == {"owner", "alice"}
ZeroAddress == "zero"               \* address(0)
Factory == "factory"                \* address(this)
Pair == "pair"                      \* the pool of a token
Holders == Users \cup {Factory, Pair}
TokenAddrs == 0..MaxTokens          \* token addresses; 0 is address(0)

NOT_ENTERED == 1
ENTERED == 2

OK == "ok"
ErrReentrant == "ReentrancyGuard: reentrant call"
ErrPanic == "Panic(0x11)"           \* checked arithmetic overflowed or underflowed

\* ------------------------------------------------------------ storage
NoMemeToken ==
    [fundingRaised |-> Zero, tokenAddress |-> 0,
     creatorAddress |-> ZeroAddress, isLaunched |-> FALSE]

NoPair == [exists |-> FALSE, reserveETH |-> Zero, reserveToken |-> Zero,
           lpFactory |-> Zero, lpBurned |-> Zero]

\* the chain state right after the constructor ran with _listingFee
Deployed(fee) ==
    [memeTokenAddresses |-> << >>,
     addressToMemeToken |-> [a \in TokenAddrs |-> NoMemeToken],
     curveSupply        |-> [a \in TokenAddrs |-> Zero],
     listingFee         |-> fee,
     protocolFeeBalance |-> Zero,
     status             |-> NOT_ENTERED,
     balance            |-> Zero,                 \* address(this).balance
     totalSupply        |-> [a \in TokenAddrs |-> Zero],
     balances           |-> [a \in TokenAddrs |-> [h \in Holders |-> Zero]],
     tokenFactory       |-> [a \in TokenAddrs |-> ZeroAddress],
     pair               |-> [a \in TokenAddrs |-> NoPair]]

\* ------------------------------------------------------------ calls
NoCall == [op |-> "none", sender |-> ZeroAddress, token |-> 0, qty |-> Zero,
           value |-> Zero, to |-> ZeroAddress, fee |-> Zero]

CreateCall(sender, value) ==
    [NoCall EXCEPT !.op = "createMemeToken", !.sender = sender, !.value = value]
BuyCall(sender, token, qty, value) ==
    [NoCall EXCEPT !.op = "buyMemeToken", !.sender = sender, !.token = token,
                   !.qty = qty, !.value = value]
QuoteCall(sender, token, ethAmount) ==
    [NoCall EXCEPT !.op = "calculateTokenAmountFromEth", !.sender = sender,
                   !.token = token, !.value = ethAmount]
SellCall(sender, token, qty) ==
    [NoCall EXCEPT !.op = "sellMemeToken", !.sender = sender, !.token = token,
                   !.qty = qty]
WithdrawProtocolFeesCall(sender, to) ==
    [NoCall EXCEPT !.op = "withdrawProtocolFees", !.sender = sender, !.to = to]
WithdrawFeesCall(sender, to) ==
    [NoCall EXCEPT !.op = "withdrawFees", !.sender = sender, !.to = to]
SetListingFeeCall(sender, fee) ==
    [NoCall EXCEPT !.op = "setListingFee", !.sender = sender, !.fee = fee]

\* what the contracts the engine calls do: the recipient of a payout accepts
\* it or not, and may call the engine again before it returns (reenter); the
\* pool provider succeeds or fails at one of its steps (pool), and a call into
\* the engine may be made from inside the deposit (poolReenter)
Quiet == [accept |-> TRUE, reenter |-> NoCall, pool |-> "ok", poolReenter |-> NoCall]

\* the outcome of a call: the storage it leaves, what it returns, the events it
\* emits, the native currency it paid out, the outcomes of the nested calls
Revert(s, err) ==
    [err |-> err, s |-> s, ret |-> Zero, events |-> << >>, paid |-> Zero,
     nested |-> << >>]

RECURSIVE Dispatch(_, _, _)

\* ------------------------------------------------------------ modifiers
\* a guard that lets every call in
guardOff(s) == TRUE

\* require(_status != _ENTERED)
nonReentrantBefore(s) == s.status # ENTERED

\* _status = _ENTERED, with msg.value received
Entered(s, value) == [s EXCEPT !.status = ENTERED, !.balance = Add(@, value)]

\* a guard after which a failed body keeps what it wrote
keepOnFailure(s, r) == [r EXCEPT !.s.status = NOT_ENTERED]

\* a guard that is not released when the body has run
staysEntered(s, r) ==
    IF r.err = OK THEN r
    ELSE [Revert(s, r.err) EXCEPT !.nested = r.nested]

\* _status = _NOT_ENTERED after the body; a revert in the body undoes the call
nonReentrantAfter(s, r) ==
    IF r.err = OK THEN [r EXCEPT !.s.status = NOT_ENTERED]
    ELSE [Revert(s, r.err) EXCEPT !.nested = r.nested]

onlyOwner(c) == c.sender = Owner

\* ------------------------------------------------------------ external calls
\* control is with another contract, the engine's storage being s: the contract
\* returns at once (c is no call) or calls the engine first, and what that call
\* changes in the engine stays. n is the outcome of the call
NestedOutcome(s, c, n) ==
    IF c.op = "none" THEN [ok |-> TRUE, s |-> s, nested |-> << >>]
    ELSE [ok |-> TRUE, s |-> n.s,
          nested |-> <<[call |-> c, err |-> n.err, changed |-> n.s # s]>>]

Callback(s, c) == NestedOutcome(s, c, Dispatch(s, c, Quiet))

\* a payout that counts as made whether the recipient accepts it or not
payoutUnchecked(s, amount, env) ==
    IF Lt(s.balance, amount) THEN [ok |-> FALSE, s |-> s, nested |-> << >>]
    ELSE Callback([s EXCEPT !.balance = Sub(@, amount)], env.reenter)

\* recipient.call{value: amount}(""): fails when the engine holds less than
\* amount or the recipient does not accept; the recipient's code runs with the
\* amount already moved
Payout(s, amount, env) ==
    IF Lt(s.balance, amount) \/ ~env.accept
    THEN [ok |-> FALSE, s |-> s, nested |-> << >>]
    ELSE Callback([s EXCEPT !.balance = Sub(@, amount)], env.reenter)

\* ------------------------------------------------------------ Token
\* a mint that always goes to the Token of the first asset
mintFirst(s, tokenAddr, amount, to) ==
    IF to = ZeroAddress THEN Revert(s, "ERC20: mint to zero")
    ELSE IF Gt(Add(s.totalSupply[1], amount), MAX_SUPPLY)
    THEN Revert(s, "max supply exceeded")
    ELSE [Revert(s, OK) EXCEPT
            !.s = [s EXCEPT !.totalSupply[1] = Add(@, amount),
                            !.balances[1][to] = Add(@, amount)]]

\* Token._mint, called through mint (onlyFactory) or the constructor
mint(s, tokenAddr, amount, to) ==
    IF to = ZeroAddress THEN Revert(s, "ERC20: mint to zero")
    ELSE IF Gt(Add(s.totalSupply[tokenAddr], amount), MAX_SUPPLY)
    THEN Revert(s, "max supply exceeded")
    ELSE [Revert(s, OK) EXCEPT
            !.s = [s EXCEPT !.totalSupply[tokenAddr] = Add(@, amount),
                            !.balances[tokenAddr][to] = Add(@, amount)]]

\* a burn taken from the engine's own holding instead of the seller's
burnEngine(s, tokenAddr, amount, from) ==
    IF Lt(s.balances[tokenAddr][Factory], amount)
    THEN Revert(s, "ERC20: burn > balance")
    ELSE [Revert(s, OK) EXCEPT
            !.s = [s EXCEPT !.totalSupply[tokenAddr] = Sub(@, amount),
                            !.balances[tokenAddr][Factory] = Sub(@, amount)]]

\* Token._burn, called through burn (onlyFactory)
burn(s, tokenAddr, amount, from) ==
    IF from = ZeroAddress THEN Revert(s, "ERC20: burn from zero")
    ELSE IF Lt(s.balances[tokenAddr][from], amount)
    THEN Revert(s, "ERC20: burn > balance")
    ELSE [Revert(s, OK) EXCEPT
            !.s = [s EXCEPT !.totalSupply[tokenAddr] = Sub(@, amount),
                            !.balances[tokenAddr][from] = Sub(@, amount)]]

\* Token.transfer
transfer(s, tokenAddr, from, to, amount) ==
    IF from = ZeroAddress THEN Revert(s, "ERC20: transfer from zero")
    ELSE IF to = ZeroAddress THEN Revert(s, "ERC20: transfer to zero")
    ELSE IF Lt(s.balances[tokenAddr][from], amount)
    THEN Revert(s, "ERC20: transfer > balance")
    ELSE [Revert(s, OK) EXCEPT
            !.s = [s EXCEPT !.balances[tokenAddr] =
                      [[@ EXCEPT ![from] = Sub(@, amount)] EXCEPT ![to] = Add(@, amount)]]]

\* Token.setFactory, open to any caller until the factory is set; the factory
\* is locked once it is not the zero address
tokenSetFactory(s, tokenAddr, factory) ==
    IF s.tokenFactory[tokenAddr] # ZeroAddress THEN Revert(s, "Factory already set")
    ELSE IF factory = ZeroAddress THEN Revert(s, "Zero factory")
    ELSE [Revert(s, OK) EXCEPT !.s = [s EXCEPT !.tokenFactory[tokenAddr] = factory]]

\* Token.mint and Token.burn as called by sender (onlyFactory)
tokenMint(s, tokenAddr, sender, amount, to) ==
    IF sender # s.tokenFactory[tokenAddr] THEN Revert(s, "Not factory")
    ELSE mint(s, tokenAddr, amount, to)

tokenBurn(s, tokenAddr, sender, amount, from) ==
    IF sender # s.tokenFactory[tokenAddr] THEN Revert(s, "Not factory")
    ELSE burn(s, tokenAddr, amount, from)

\* ------------------------------------------------------------ createMemeToken
\* a creation that books the fee and not the whole payment
createBodyFeeOnly(s, c) ==
    LET tokenAddr == Len(s.memeTokenAddresses) + 1
        feed      == [s EXCEPT !.protocolFeeBalance = Add(@, MEMETOKEN_CREATION_FEE)]
        deployed  == mint(feed, tokenAddr, INIT_SUPPLY, Factory)
        linked    == [deployed.s EXCEPT
                        !.tokenFactory[tokenAddr] = Factory,
                        !.memeTokenAddresses = Append(@, tokenAddr),
                        !.addressToMemeToken[tokenAddr] =
                            [fundingRaised |-> Zero, tokenAddress |-> tokenAddr,
                             creatorAddress |-> c.sender, isLaunched |-> FALSE]]
    IN  IF Lt(c.value, MEMETOKEN_CREATION_FEE) THEN Revert(s, "Creation fee required")
        ELSE IF deployed.err # OK THEN Revert(s, deployed.err)
        ELSE [Revert(s, OK) EXCEPT
                !.s = linked,
                !.ret = FromNat(tokenAddr),
                !.events = <<[name |-> "MemeTokenCreated", tokenAddress |-> tokenAddr,
                              who |-> c.sender]>>]

\* a creation that does not link the new Token to the engine
createBodyUnlinked(s, c) ==
    LET tokenAddr == Len(s.memeTokenAddresses) + 1
        feed      == [s EXCEPT !.protocolFeeBalance = Add(@, c.value)]
        deployed  == mint(feed, tokenAddr, INIT_SUPPLY, Factory)
        linked    == [deployed.s EXCEPT
                        !.memeTokenAddresses = Append(@, tokenAddr),
                        !.addressToMemeToken[tokenAddr] =
                            [fundingRaised |-> Zero, tokenAddress |-> tokenAddr,
                             creatorAddress |-> c.sender, isLaunched |-> FALSE]]
    IN  IF Lt(c.value, MEMETOKEN_CREATION_FEE) THEN Revert(s, "Creation fee required")
        ELSE IF deployed.err # OK THEN Revert(s, deployed.err)
        ELSE [Revert(s, OK) EXCEPT
                !.s = linked,
                !.ret = FromNat(tokenAddr),
                !.events = <<[name |-> "MemeTokenCreated", tokenAddress |-> tokenAddr,
                              who |-> c.sender]>>]

\* new Token(name, symbol, MAX_SUPPLY, INIT_SUPPLY) at the next address, then
\* setFactory(address(this))
createBody(s, c) ==
    LET tokenAddr == Len(s.memeTokenAddresses) + 1
        feed      == [s EXCEPT !.protocolFeeBalance = Add(@, c.value)]
        deployed  == mint(feed, tokenAddr, INIT_SUPPLY, Factory)
        linked    == [deployed.s EXCEPT
                        !.tokenFactory[tokenAddr] = Factory,
                        !.memeTokenAddresses = Append(@, tokenAddr),
                        !.addressToMemeToken[tokenAddr] =
                            [fundingRaised |-> Zero, tokenAddress |-> tokenAddr,
                             creatorAddress |-> c.sender, isLaunched |-> FALSE]]
    IN  IF Lt(c.value, MEMETOKEN_CREATION_FEE) THEN Revert(s, "Creation fee required")
        ELSE IF deployed.err # OK THEN Revert(s, deployed.err)
        ELSE [Revert(s, OK) EXCEPT
                !.s = linked,
                !.ret = FromNat(tokenAddr),
                !.events = <<[name |-> "MemeTokenCreated", tokenAddress |-> tokenAddr,
                              who |-> c.sender]>>]

createMemeToken(s, c) ==
    IF ~nonReentrantBefore(s) THEN Revert(s, ErrReentrant)
    ELSE nonReentrantAfter(s, createBody(Entered(s, c.value), c))

\* ------------------------------------------------------------ _launchOnUniswap
PoolOutcomes == {"ok", "createPairFails", "addLiquidityFails", "zeroLiquidity",
                 "lpTransferFails"}

\* the liquidity receipt the pool mints for a deposit: its size is the pool's
\* business, the engine only tests it against zero
LiquidityMinted(env) == IF env.pool = "zeroLiquidity" THEN Zero ELSE Tokens(1)

\* a deposit whose receipt goes to the dead address only by half
addLiquidityHalfLocked(s, tokenAddr, ethAmount, env, cb) ==
    LET liquidity == LiquidityMinted(env)
        deposited == [cb.s EXCEPT
                        !.balance = Sub(@, ethAmount),
                        !.balances[tokenAddr][Factory] = Sub(@, INIT_SUPPLY),
                        !.balances[tokenAddr][Pair] = Add(@, INIT_SUPPLY),
                        !.pair[tokenAddr].reserveETH = Add(@, ethAmount),
                        !.pair[tokenAddr].reserveToken = Add(@, INIT_SUPPLY),
                        !.pair[tokenAddr].lpFactory = Add(@, liquidity)]
        locked    == [deposited EXCEPT
                        !.pair[tokenAddr].lpFactory = Sub(@, DivSmall(liquidity, 2)),
                        !.pair[tokenAddr].lpBurned = Add(@, DivSmall(liquidity, 2))]
    IN  IF env.pool = "addLiquidityFails" \/ Lt(cb.s.balance, ethAmount)
           \/ Lt(cb.s.balances[tokenAddr][Factory], INIT_SUPPLY)
        THEN [Revert(s, "addLiquidityETH failed") EXCEPT !.nested = cb.nested]
        ELSE IF ~Gt(liquidity, Zero)
        THEN [Revert(s, "No liquidity minted") EXCEPT !.nested = cb.nested]
        ELSE IF env.pool = "lpTransferFails"
        THEN [Revert(s, "LP transfer failed") EXCEPT !.nested = cb.nested]
        ELSE [Revert(s, OK) EXCEPT !.s = locked, !.nested = cb.nested]

\* addLiquidityETH with the pool's code run (cb): the deposit, the receipt
\* minted to the engine, the receipt test and the transfer of the whole
\* receipt to the dead address
addLiquidity(s, tokenAddr, ethAmount, env, cb) ==
    LET liquidity == LiquidityMinted(env)
        deposited == [cb.s EXCEPT
                        !.balance = Sub(@, ethAmount),
                        !.balances[tokenAddr][Factory] = Sub(@, INIT_SUPPLY),
                        !.balances[tokenAddr][Pair] = Add(@, INIT_SUPPLY),
                        !.pair[tokenAddr].reserveETH = Add(@, ethAmount),
                        !.pair[tokenAddr].reserveToken = Add(@, INIT_SUPPLY),
                        !.pair[tokenAddr].lpFactory = Add(@, liquidity)]
        locked    == [deposited EXCEPT
                        !.pair[tokenAddr].lpFactory = Sub(@, liquidity),
                        !.pair[tokenAddr].lpBurned = Add(@, liquidity)]
    IN  IF env.pool = "addLiquidityFails" \/ Lt(cb.s.balance, ethAmount)
           \/ Lt(cb.s.balances[tokenAddr][Factory], INIT_SUPPLY)
        THEN [Revert(s, "addLiquidityETH failed") EXCEPT !.nested = cb.nested]
        ELSE IF ~Gt(liquidity, Zero)
        THEN [Revert(s, "No liquidity minted") EXCEPT !.nested = cb.nested]
        ELSE IF env.pool = "lpTransferFails"
        THEN [Revert(s, "LP transfer failed") EXCEPT !.nested = cb.nested]
        ELSE [Revert(s, OK) EXCEPT !.s = locked, !.nested = cb.nested]

launchOnUniswap(s, tokenAddr, ethAmount, env) ==
    IF ~Gt(ethAmount, Zero) THEN Revert(s, "No SEI for LP")
    ELSE IF ~s.pair[tokenAddr].exists /\ env.pool = "createPairFails"
    THEN Revert(s, "createPair failed")
    ELSE IF Lt(s.balances[tokenAddr][Factory], INIT_SUPPLY)
    THEN Revert(s, "Insufficient LP tokens")
    ELSE addLiquidity(s, tokenAddr, ethAmount, env,
                      Callback([s EXCEPT !.pair[tokenAddr].exists = TRUE],
                               env.poolReenter))

\* ------------------------------------------------------------ buyMemeToken
\* a graduation that leaves the reserve of the asset in the ledger
buyLaunchedKeepsReserve(s, done, launchEvent, launched) ==
    IF launched.err # OK
    THEN [Revert(s, launched.err) EXCEPT !.nested = done.nested \o launched.nested]
    ELSE [done EXCEPT
            !.s = [launched.s EXCEPT
                     !.addressToMemeToken[launchEvent.tokenAddress].fundingRaised =
                        launchEvent.ethForLP],
            !.events = done.events \o <<launchEvent>>,
            !.nested = done.nested \o launched.nested]

\* a graduation that stands whatever the pool did
buyLaunchedAnyway(s, done, launchEvent, launched) ==
    [done EXCEPT !.s = launched.s,
                 !.events = done.events \o <<launchEvent>>,
                 !.nested = done.nested \o launched.nested]

\* the end of the graduation step: launched is the outcome of _launchOnUniswap
buyLaunched(s, done, launchEvent, launched) ==
    IF launched.err # OK
    THEN [Revert(s, launched.err) EXCEPT !.nested = done.nested \o launched.nested]
    ELSE [done EXCEPT !.s = launched.s,
                      !.events = done.events \o <<launchEvent>>,
                      !.nested = done.nested \o launched.nested]

\* a buy that leaves out the graduation step
buyNeverGraduates(s, c, env, done) == done

\* a graduation that withholds the listing fee from the pool without
\* crediting it to the protocol fees
buyGraduateFeeLost(s, c, env, done) ==
    LET tokenAddr   == c.token
        mt          == s.addressToMemeToken[tokenAddr]
        maxCurveRaw == Sub(MAX_SUPPLY, INIT_SUPPLY)
        takes       == Gt(s.listingFee, Zero) /\ Gt(mt.fundingRaised, s.listingFee)
        lpEth       == IF takes THEN Sub(mt.fundingRaised, s.listingFee)
                       ELSE mt.fundingRaised
        takenListingFee == IF takes THEN s.listingFee ELSE Zero
        marked      == [s EXCEPT
                          !.addressToMemeToken[tokenAddr].isLaunched = TRUE,
                          !.addressToMemeToken[tokenAddr].fundingRaised = Zero]
    IN  IF ~mt.isLaunched
           /\ (Ge(mt.fundingRaised, MEMECOIN_FUNDING_GOAL)
               \/ Ge(s.curveSupply[tokenAddr], maxCurveRaw))
        THEN buyLaunched(s, done,
                         [name |-> "TokenLaunched", tokenAddress |-> tokenAddr,
                          ethForLP |-> lpEth, listingFeeTaken |-> takenListingFee],
                         launchOnUniswap(marked, tokenAddr, lpEth, env))
        ELSE done

\* the graduation step, after the refund; done is the outcome of the buy
\* without it
buyGraduate(s, c, env, done) ==
    LET tokenAddr   == c.token
        mt          == s.addressToMemeToken[tokenAddr]
        maxCurveRaw == Sub(MAX_SUPPLY, INIT_SUPPLY)
        takes       == Gt(s.listingFee, Zero) /\ Gt(mt.fundingRaised, s.listingFee)
        lpEth       == IF takes THEN Sub(mt.fundingRaised, s.listingFee)
                       ELSE mt.fundingRaised
        takenListingFee == IF takes THEN s.listingFee ELSE Zero
        marked      == [s EXCEPT
                          !.protocolFeeBalance = Add(@, takenListingFee),
                          !.addressToMemeToken[tokenAddr].isLaunched = TRUE,
                          !.addressToMemeToken[tokenAddr].fundingRaised = Zero]
    IN  IF ~mt.isLaunched
           /\ (Ge(mt.fundingRaised, MEMECOIN_FUNDING_GOAL)
               \/ Ge(s.curveSupply[tokenAddr], maxCurveRaw))
        THEN buyLaunched(s, done,
                         [name |-> "TokenLaunched", tokenAddress |-> tokenAddr,
                          ethForLP |-> lpEth, listingFeeTaken |-> takenListingFee],
                         launchOnUniswap(marked, tokenAddr, lpEth, env))
        ELSE done

\* a buy that returns the number of whole tokens it filled
buyRefundedQty(s, c, env, bought, totalRequired, refunded) ==
    IF ~refunded.ok THEN Revert(s, "Refund failed")
    ELSE buyGraduate(refunded.s, c, env,
                     [err |-> OK, s |-> refunded.s, ret |-> bought.tokenQty,
                      events |-> <<bought>>, paid |-> Sub(c.value, totalRequired),
                      nested |-> refunded.nested])

\* after the refund of the excess (refunded is its outcome)
buyRefunded(s, c, env, bought, totalRequired, refunded) ==
    IF ~refunded.ok THEN Revert(s, "Refund failed")
    ELSE buyGraduate(refunded.s, c, env,
                     [err |-> OK, s |-> refunded.s, ret |-> totalRequired,
                      events |-> <<bought>>, paid |-> Sub(c.value, totalRequired),
                      nested |-> refunded.nested])

\* a buy that counts the quantity asked for, not the quantity filled, on the curve
buyChargedAsAsked(s, c, env, buyRaw, curveCost, fee) ==
    LET tokenAddr     == c.token
        totalRequired == Add(curveCost, fee)
        accounted     == [s EXCEPT
                            !.protocolFeeBalance = Add(@, fee),
                            !.addressToMemeToken[tokenAddr].fundingRaised = Add(@, curveCost),
                            !.curveSupply[tokenAddr] =
                                Add(s.curveSupply[tokenAddr], Mul(c.qty, DECIMALS))]
        minted        == mint(accounted, tokenAddr, buyRaw, c.sender)
        bought        == [name |-> "TokenBought", tokenAddress |-> tokenAddr,
                          who |-> c.sender, tokenQty |-> DivDecimals(buyRaw),
                          amount |-> totalRequired]
    IN  IF Lt(c.value, totalRequired) THEN Revert(s, "Insufficient SEI sent")
        ELSE IF minted.err # OK THEN Revert(s, minted.err)
        ELSE buyRefunded(s, c, env, bought, totalRequired,
                         IF Gt(c.value, totalRequired)
                         THEN Payout(minted.s, Sub(c.value, totalRequired), env)
                         ELSE [ok |-> TRUE, s |-> minted.s, nested |-> << >>])

\* the payment check, the accounting, the mint, the event and the refund
buyCharged(s, c, env, buyRaw, curveCost, fee) ==
    LET tokenAddr     == c.token
        totalRequired == Add(curveCost, fee)
        accounted     == [s EXCEPT
                            !.protocolFeeBalance = Add(@, fee),
                            !.addressToMemeToken[tokenAddr].fundingRaised = Add(@, curveCost),
                            !.curveSupply[tokenAddr] = Add(s.curveSupply[tokenAddr], buyRaw)]
        minted        == mint(accounted, tokenAddr, buyRaw, c.sender)
        bought        == [name |-> "TokenBought", tokenAddress |-> tokenAddr,
                          who |-> c.sender, tokenQty |-> DivDecimals(buyRaw),
                          amount |-> totalRequired]
    IN  IF Lt(c.value, totalRequired) THEN Revert(s, "Insufficient SEI sent")
        ELSE IF minted.err # OK THEN Revert(s, minted.err)
        ELSE buyRefunded(s, c, env, bought, totalRequired,
                         IF Gt(c.value, totalRequired)
                         THEN Payout(minted.s, Sub(c.value, totalRequired), env)
                         ELSE [ok |-> TRUE, s |-> minted.s, nested |-> << >>])

\* a buy whose fee is taken on the payment
buyPricedOnPayment(s, c, env, buyRaw, curveCost) ==
    buyCharged(s, c, env, buyRaw, curveCost, TradingFee(c.value))

\* the fee on the curve cost of the tokens to buy
buyPriced(s, c, env, buyRaw, curveCost) ==
    buyCharged(s, c, env, buyRaw, curveCost, TradingFee(curveCost))

\* a buy that does not look at the launch flag
buyBodyUnlatched(s, c, env) ==
    LET tokenAddr     == c.token
        mt            == s.addressToMemeToken[tokenAddr]
        currentRaw    == s.curveSupply[tokenAddr]
        maxCurveRaw   == Sub(MAX_SUPPLY, INIT_SUPPLY)
        availableRaw  == Sub(maxCurveRaw, currentRaw)
        requested     == Mul(c.qty, DECIMALS)
        buyRaw        == IF Gt(requested, availableRaw) THEN availableRaw ELSE requested
    IN  IF ~(mt.tokenAddress = tokenAddr /\ tokenAddr # 0) THEN Revert(s, "Unknown token")
        ELSE IF Gt(currentRaw, maxCurveRaw) THEN Revert(s, ErrPanic)
        ELSE IF ~Gt(availableRaw, Zero) THEN Revert(s, "Curve complete")
        ELSE IF Gt(requested, MAX_UINT256) THEN Revert(s, ErrPanic)
        ELSE IF ~Gt(buyRaw, Zero) THEN Revert(s, "Nothing to buy")
        ELSE buyPriced(s, c, env, buyRaw, Cost(currentRaw, buyRaw))

buyBody(s, c, env) ==
    LET tokenAddr     == c.token
        mt            == s.addressToMemeToken[tokenAddr]
        currentRaw    == s.curveSupply[tokenAddr]
        maxCurveRaw   == Sub(MAX_SUPPLY, INIT_SUPPLY)
        availableRaw  == Sub(maxCurveRaw, currentRaw)
        requested     == Mul(c.qty, DECIMALS)
        buyRaw        == IF Gt(requested, availableRaw) THEN availableRaw ELSE requested
    IN  IF ~(mt.tokenAddress = tokenAddr /\ tokenAddr # 0) THEN Revert(s, "Unknown token")
        ELSE IF mt.isLaunched THEN Revert(s, "Launched: use Uniswap")
        ELSE IF Gt(currentRaw, maxCurveRaw) THEN Revert(s, ErrPanic)
        ELSE IF ~Gt(availableRaw, Zero) THEN Revert(s, "Curve complete")
        ELSE IF Gt(requested, MAX_UINT256) THEN Revert(s, ErrPanic)
        ELSE IF ~Gt(buyRaw, Zero) THEN Revert(s, "Nothing to buy")
        ELSE buyPriced(s, c, env, buyRaw, Cost(currentRaw, buyRaw))

buyMemeToken(s, c, env) ==
    IF ~nonReentrantBefore(s) THEN Revert(s, ErrReentrant)
    ELSE nonReentrantAfter(s, buyBody(Entered(s, c.value), c, env))

\* ------------------------------------------------------------ sellMemeToken
\* a sell that marks the asset launched when it empties the curve
sellPaidLaunching(s, c, netRefund, paid) ==
    IF ~paid.ok THEN Revert(s, "SEI transfer failed")
    ELSE [err |-> OK,
          s |-> [paid.s EXCEPT !.addressToMemeToken[c.token].isLaunched =
                                   (paid.s.curveSupply[c.token] = Zero)],
          ret |-> netRefund,
          events |-> <<[name |-> "TokenSold", tokenAddress |-> c.token,
                        who |-> c.sender, tokenQty |-> c.qty,
                        amount |-> netRefund]>>,
          paid |-> netRefund, nested |-> paid.nested]

\* the end of a sell: paid is the outcome of the payout
sellPaid(s, c, netRefund, paid) ==
    IF ~paid.ok THEN Revert(s, "SEI transfer failed")
    ELSE [err |-> OK, s |-> paid.s, ret |-> netRefund,
          events |-> <<[name |-> "TokenSold", tokenAddress |-> c.token,
                        who |-> c.sender, tokenQty |-> c.qty,
                        amount |-> netRefund]>>,
          paid |-> netRefund, nested |-> paid.nested]

\* a sell that pays the refund whatever the reserve holds
sellChargedUnreserved(s, c, env, qtyRaw, refund, fee) ==
    LET tokenAddr  == c.token
        mt         == s.addressToMemeToken[tokenAddr]
        netRefund  == Sub(refund, fee)
        accounted  == [s EXCEPT
                         !.protocolFeeBalance = Add(@, fee),
                         !.addressToMemeToken[tokenAddr].fundingRaised =
                             IF Ge(@, refund) THEN Sub(@, refund) ELSE Zero,
                         !.curveSupply[tokenAddr] = Sub(s.curveSupply[tokenAddr], qtyRaw)]
        burned     == burn(accounted, tokenAddr, qtyRaw, c.sender)
    IN  IF burned.err # OK THEN Revert(s, burned.err)
        ELSE sellPaid(s, c, netRefund, Payout(burned.s, netRefund, env))

\* a sell that credits the fee and still pays the gross refund out
sellChargedGross(s, c, env, qtyRaw, refund, fee) ==
    LET tokenAddr  == c.token
        mt         == s.addressToMemeToken[tokenAddr]
        accounted  == [s EXCEPT
                         !.protocolFeeBalance = Add(@, fee),
                         !.addressToMemeToken[tokenAddr].fundingRaised = Sub(@, refund),
                         !.curveSupply[tokenAddr] = Sub(s.curveSupply[tokenAddr], qtyRaw)]
        burned     == burn(accounted, tokenAddr, qtyRaw, c.sender)
    IN  IF ~Ge(mt.fundingRaised, refund) THEN Revert(s, "Insufficient curve SEI")
        ELSE IF burned.err # OK THEN Revert(s, burned.err)
        ELSE sellPaid(s, c, refund, Payout(burned.s, refund, env))

\* the solvency check, the accounting, the burn and the payout
sellCharged(s, c, env, qtyRaw, refund, fee) ==
    LET tokenAddr  == c.token
        mt         == s.addressToMemeToken[tokenAddr]
        netRefund  == Sub(refund, fee)
        accounted  == [s EXCEPT
                         !.protocolFeeBalance = Add(@, fee),
                         !.addressToMemeToken[tokenAddr].fundingRaised = Sub(@, refund),
                         !.curveSupply[tokenAddr] = Sub(s.curveSupply[tokenAddr], qtyRaw)]
        burned     == burn(accounted, tokenAddr, qtyRaw, c.sender)
    IN  IF ~Ge(mt.fundingRaised, refund) THEN Revert(s, "Insufficient curve SEI")
        ELSE IF burned.err # OK THEN Revert(s, burned.err)
        ELSE sellPaid(s, c, netRefund, Payout(burned.s, netRefund, env))

\* a sell that takes no fee
sellPricedFree(s, c, env, qtyRaw, refund) ==
    sellCharged(s, c, env, qtyRaw, refund, Zero)

\* the fee on the curve refund of the tokens to sell
sellPriced(s, c, env, qtyRaw, refund) ==
    sellCharged(s, c, env, qtyRaw, refund, TradingFee(refund))

sellBody(s, c, env) ==
    LET tokenAddr  == c.token
        mt         == s.addressToMemeToken[tokenAddr]
        qtyRaw     == Mul(c.qty, DECIMALS)
        currentRaw == s.curveSupply[tokenAddr]
    IN  IF ~(mt.tokenAddress = tokenAddr /\ tokenAddr # 0) THEN Revert(s, "Unknown token")
        ELSE IF mt.isLaunched THEN Revert(s, "Launched: use Uniswap")
        ELSE IF Gt(qtyRaw, MAX_UINT256) THEN Revert(s, ErrPanic)
        ELSE IF ~Ge(s.balances[tokenAddr][c.sender], qtyRaw)
        THEN Revert(s, "Insufficient balance")
        ELSE IF ~Ge(currentRaw, qtyRaw) THEN Revert(s, "Curve supply too low")
        ELSE sellPriced(s, c, env, qtyRaw, Refund(currentRaw, qtyRaw))

sellMemeToken(s, c, env) ==
    IF ~nonReentrantBefore(s) THEN Revert(s, ErrReentrant)
    ELSE nonReentrantAfter(s, sellBody(Entered(s, Zero), c, env))

\* ------------------------------------------------------------ admin
setListingFee(s, c) ==
    IF ~onlyOwner(c) THEN Revert(s, "Not owner")
    ELSE [Revert(s, OK) EXCEPT
            !.s = [s EXCEPT !.listingFee = c.fee],
            !.events = <<[name |-> "ListingFeeUpdated", newListingFee |-> c.fee]>>]

\* the end of a withdrawal: paid is the outcome of the payout of amount
withdrawPaid(s, amount, paid) ==
    IF ~paid.ok THEN Revert(s, "SEI transfer failed")
    ELSE [Revert(s, OK) EXCEPT !.s = paid.s, !.paid = amount, !.nested = paid.nested]

\* a withdrawal that pays the fees out and keeps them on the books
withdrawProtocolFeesKept(s, c, env) ==
    LET amount == s.protocolFeeBalance
    IN  IF c.to = ZeroAddress THEN Revert(s, "zero")
        ELSE IF ~Gt(amount, Zero) THEN Revert(s, "no fees")
        ELSE withdrawPaid(s, amount, Payout(s, amount, env))

withdrawProtocolFeesBody(s, c, env) ==
    LET amount == s.protocolFeeBalance
    IN  IF c.to = ZeroAddress THEN Revert(s, "zero")
        ELSE IF ~Gt(amount, Zero) THEN Revert(s, "no fees")
        ELSE withdrawPaid(s, amount,
                          Payout([s EXCEPT !.protocolFeeBalance = Zero], amount, env))

withdrawProtocolFees(s, c, env) ==
    IF ~onlyOwner(c) THEN Revert(s, "Not owner")
    ELSE IF ~nonReentrantBefore(s) THEN Revert(s, ErrReentrant)
    ELSE nonReentrantAfter(s, withdrawProtocolFeesBody(Entered(s, Zero), c, env))

withdrawFeesBody(s, c, env) ==
    LET bal == s.balance
    IN  IF c.to = ZeroAddress THEN Revert(s, "zero")
        ELSE IF ~Gt(bal, Zero) THEN Revert(s, "no balance")
        ELSE withdrawPaid(s, bal, Payout(s, bal, env))

withdrawFees(s, c, env) ==
    IF ~onlyOwner(c) THEN Revert(s, "Not owner")
    ELSE IF ~nonReentrantBefore(s) THEN Revert(s, ErrReentrant)
    ELSE nonReentrantAfter(s, withdrawFeesBody(Entered(s, Zero), c, env))

\* ------------------------------------------------------------ calculateTokenAmountFromEth
\* the number a uint256 of at most two limbs stands for
ToNat(a) == Limb(a, 1) + Base * Limb(a, 2)

\* exp(xx) aborts when a product term * x or the sum leaves uint256; i is the
\* iteration looked at, after the iterations before it
RECURSIVE expLoopFaults(_, _)
expLoopFaults(xx, i) ==
    IF i = 0 THEN FALSE
    ELSE \/ expLoopFaults(xx, i - 1)
         \/ /\ expLoop(xx, i - 1)[1] # Zero
            /\ \/ Gt(Mul(expLoop(xx, i - 1)[1], xx), MAX_UINT256)
               \/ Gt(expLoop(xx, i)[2], MAX_UINT256)

\* no term exceeds the sum, so that a sum whose product with x fits has met
\* no overflow
expFaults(xx) ==
    IF Le(Mul(exp(xx), xx), MAX_UINT256) THEN FALSE
    ELSE expLoopFaults(xx, ExpTerms)

\* calculateCost aborts (Panic) when its checked arithmetic overflows or exp1 - exp0
\* goes below zero
calculateCostFaults(currentRaw, amountRaw) ==
    \/ Gt(Add(currentRaw, amountRaw), MAX_UINT256)
    \/ Gt(Mul(K, Add(currentRaw, amountRaw)), MAX_UINT256)
    \/ expFaults(Exponent(Add(currentRaw, amountRaw)))
    \/ expFaults(Exponent(currentRaw))
    \/ Lt(exp(Exponent(Add(currentRaw, amountRaw))), exp(Exponent(currentRaw)))
    \/ Gt(Mul(INITIAL_PRICE, Sub(exp(Exponent(Add(currentRaw, amountRaw))),
                                 exp(Exponent(currentRaw)))), MAX_UINT256)

\* calculateRefund aborts (Panic) when its checked arithmetic overflows or a
\* subtraction goes below zero
calculateRefundFaults(currentRaw, amountRaw) ==
    \/ Lt(currentRaw, amountRaw)
    \/ Gt(Mul(K, currentRaw), MAX_UINT256)
    \/ expFaults(Exponent(currentRaw))
    \/ expFaults(Exponent(Sub(currentRaw, amountRaw)))
    \/ Lt(exp(Exponent(currentRaw)), exp(Exponent(Sub(currentRaw, amountRaw))))
    \/ Gt(Mul(INITIAL_PRICE, Sub(exp(Exponent(currentRaw)),
                                 exp(Exponent(Sub(currentRaw, amountRaw))))), MAX_UINT256)

\* address(this).staticcall(calculateCost(currentRaw, amountRaw)): ok and the
\* decoded cost
costCall(currentRaw, amountRaw) ==
    IF calculateCostFaults(currentRaw, amountRaw) THEN [ok |-> FALSE, cost |-> Zero]
    ELSE [ok |-> TRUE, cost |-> Cost(currentRaw, amountRaw)]

\* a search that settles on the first midpoint it can afford
searchStepFirstFit(low, high, mid, effectiveEth, pr) ==
    IF pr.ok /\ Le(pr.cost, effectiveEth) THEN <<mid, mid>> ELSE <<low, mid - 1>>

\* a search that drops two candidates when the midpoint is too expensive
searchStepDropsTwo(low, high, mid, effectiveEth, pr) ==
    IF pr.ok /\ Le(pr.cost, effectiveEth) THEN <<mid, high>> ELSE <<low, mid - 2>>

\* one turn of the loop for the midpoint mid, priced pr
searchStep(low, high, mid, effectiveEth, pr) ==
    IF pr.ok /\ Le(pr.cost, effectiveEth) THEN <<mid, high>> ELSE <<low, mid - 1>>

\* while (low < high): the final low
RECURSIVE searchTokens(_, _, _, _)
searchTokens(currentRaw, effectiveEth, low, high) ==
    IF ~(low < high) THEN low
    ELSE LET mid  == (low + high + 1) \div 2
             next == searchStep(low, high, mid, effectiveEth,
                                costCall(currentRaw, Tokens(mid)))
         IN  searchTokens(currentRaw, effectiveEth, next[1], next[2])

\* while (low < high): <<low, high>> each time the loop condition is tested,
\* the last pair being the one that ends the loop
RECURSIVE searchTrace(_, _, _, _)
searchTrace(currentRaw, effectiveEth, low, high) ==
    IF ~(low < high) THEN << <<low, high>> >>
    ELSE LET mid  == (low + high + 1) \div 2
             next == searchStep(low, high, mid, effectiveEth,
                                costCall(currentRaw, Tokens(mid)))
         IN  << <<low, high>> >> \o searchTrace(currentRaw, effectiveEth, next[1], next[2])

\* the view calculateTokenAmountFromEth(c.token, c.value), c.value being
\* its ethAmount
calculateTokenAmountFromEth(s, c) ==
    LET tokenAddr    == c.token
        mt           == s.addressToMemeToken[tokenAddr]
        currentRaw   == s.curveSupply[tokenAddr]
        availRaw     == Sub(Sub(MAX_SUPPLY, INIT_SUPPLY), currentRaw)
        maxTokens    == ToNat(DivDecimals(availRaw))
        effectiveEth == DivSmall(Mul(c.value, FromNat(BPS_DENOMINATOR - FEE_BPS)),
                                 BPS_DENOMINATOR)
    IN  IF ~(mt.tokenAddress = tokenAddr /\ tokenAddr # 0) THEN Revert(s, "Unknown token")
        ELSE IF mt.isLaunched THEN Revert(s, "Already launched")
        ELSE IF Gt(currentRaw, Sub(MAX_SUPPLY, INIT_SUPPLY)) THEN Revert(s, ErrPanic)
        ELSE IF maxTokens = 0 \/ c.value = Zero THEN Revert(s, OK)
        ELSE IF Gt(Mul(c.value, FromNat(BPS_DENOMINATOR - FEE_BPS)), MAX_UINT256)
        THEN Revert(s, ErrPanic)
        ELSE [Revert(s, OK) EXCEPT
                !.ret = FromNat(searchTokens(currentRaw, effectiveEth, 0, maxTokens))]

\* a call of the engine's external interface; "none" is no call at all
Dispatch(s, c, env) ==
    CASE c.op = "createMemeToken"      -> createMemeToken(s, c)
      [] c.op = "buyMemeToken"         -> buyMemeToken(s, c, env)
      [] c.op = "sellMemeToken"        -> sellMemeToken(s, c, env)
      [] c.op = "setListingFee"        -> setListingFee(s, c)
      [] c.op = "withdrawProtocolFees" -> withdrawProtocolFees(s, c, env)
      [] c.op = "withdrawFees"         -> withdrawFees(s, c, env)
      [] OTHER                         -> Revert(s, OK)

\* ------------------------------------------------------------ inputs
OneEther == Tokens(1)
AmplePayment == Tokens(1000000)
InitialListingFees == {Zero, OneEther}
ListingFeeChoices == {Zero, OneEther, Tokens(200000)}
\* the payments tried for a creation: one unit short and exact, and one ether
\* more once an asset is listed (an overpaid first creation differs from an
\* exact one in protocolFeeBalance only)
CreationPayments(s) ==
    IF Len(s.memeTokenAddresses) = 0
    THEN {Sub(MEMETOKEN_CREATION_FEE, One), MEMETOKEN_CREATION_FEE}
    ELSE {Sub(MEMETOKEN_CREATION_FEE, One), MEMETOKEN_CREATION_FEE,
          Add(MEMETOKEN_CREATION_FEE, OneEther)}
QtyChoices == {Zero, FromNat(1), FromNat(2), FromNat(3), FromNat(10), FromNat(799999),
               FromNat(800000), MAX_UINT256}

\* the calls a contract `who` makes into the engine from inside a callback
NestedCalls(s, who) ==
    {BuyCall(who, t, One, OneEther) : t \in 1..MaxTokens}
    \cup {SellCall(who, t, One) : t \in 1..MaxTokens}
    \cup {WithdrawProtocolFeesCall(who, who), WithdrawFeesCall(who, who),
          SetListingFeeCall(who, Tokens(200000))}
    \cup (IF Len(s.memeTokenAddresses) < MaxTokens
          THEN {CreateCall(who, MEMETOKEN_CREATION_FEE)} ELSE {})

\* what the recipient `who` of a payout may do
CallbackEnvs(s, who) ==
    {Quiet, [Quiet EXCEPT !.accept = FALSE]}
    \cup {[Quiet EXCEPT !.reenter = n] : n \in NestedCalls(s, who)}

\* what the pool provider may do
PoolEnvs(s) ==
    {[Quiet EXCEPT !.pool = o] : o \in PoolOutcomes}
    \cup {[Quiet EXCEPT !.poolReenter = n] : n \in NestedCalls(s, Pair)}

\* ------------------------------------------------------------ state machine
VARIABLES
    st,     \* the storage of TokenFactory and of its Tokens, and the pools
    last,   \* the top-level call that just ran and its outcome, until its
            \* caller has taken it (NoLast between calls)
    ops     \* top-level calls so far

vars == <<st, last, ops>>

\* what is known of the call that just ran: the call, what the called contracts
\* did, its outcome, and pre, the storage it found; NoLast when none is pending
NoLast == [call |-> NoCall, env |-> Quiet, err |-> OK, ret |-> Zero,
           events |-> << >>, paid |-> Zero, nested |-> << >>,
           pre |-> Deployed(Zero)]

Init ==
    /\ \E fee \in InitialListingFees : st = Deployed(fee)
    /\ last = NoLast
    /\ ops = 0

\* a transaction can start: the previous one has returned, and the run is
\* within its bound
Ready == ops < MaxOps /\ last = NoLast

\* one transaction: the call runs to its end or reverts as a whole
Transact(c, env) ==
    \E r \in {Dispatch(st, c, env)} :
        /\ st' = r.s
        /\ last' = [call |-> c, env |-> env, err |-> r.err, ret |-> r.ret,
                    events |-> r.events, paid |-> r.paid, nested |-> r.nested,
                    pre |-> st]
        /\ ops' = ops + 1

CreateMemeToken ==
    /\ Ready
    /\ \E sender \in Users, value \in CreationPayments(st) :
        /\ Len(st.memeTokenAddresses) < MaxTokens
        /\ Transact(CreateCall(sender, value), Quiet)

\* the payments tried for a buy that would charge quote.ret: one unit short,
\* exact, and one ether more
BuyPayments(quote) ==
    IF quote.err = OK
    THEN {Sub(quote.ret, One), quote.ret, Add(quote.ret, OneEther)}
    ELSE {OneEther}

\* the behaviours of the called contracts that can make a difference to a buy
BuyEnvs(s, sender, quote, value) ==
    IF quote.err # OK \/ Lt(value, quote.ret) THEN {Quiet}
    ELSE (IF Gt(value, quote.ret) THEN CallbackEnvs(s, sender) ELSE {Quiet})
         \cup (IF Len(quote.events) > 1 THEN PoolEnvs(s) ELSE {})

BuyMemeToken ==
    /\ Ready
    /\ \E sender \in Users, token \in TokenAddrs, qty \in QtyChoices :
        \E quote \in {buyMemeToken(st, BuyCall(sender, token, qty, AmplePayment), Quiet)} :
            \E value \in BuyPayments(quote) :
                \E env \in BuyEnvs(st, sender, quote, value) :
                    Transact(BuyCall(sender, token, qty, value), env)

SellMemeToken ==
    /\ Ready
    /\ \E sender \in Users, token \in TokenAddrs, qty \in QtyChoices :
        LET quote == sellMemeToken(st, SellCall(sender, token, qty), Quiet)
        IN  \E env \in (IF quote.err = OK THEN CallbackEnvs(st, sender) ELSE {Quiet}) :
                Transact(SellCall(sender, token, qty), env)

SetListingFee ==
    /\ Ready
    /\ \E sender \in Users, fee \in ListingFeeChoices :
        Transact(SetListingFeeCall(sender, fee), Quiet)

WithdrawProtocolFees ==
    /\ Ready
    /\ \E sender \in Users, to \in Users \cup {ZeroAddress} :
        LET quote == withdrawProtocolFees(st, WithdrawProtocolFeesCall(sender, to), Quiet)
        IN  \E env \in (IF quote.err = OK THEN CallbackEnvs(st, to) ELSE {Quiet}) :
                Transact(WithdrawProtocolFeesCall(sender, to), env)

WithdrawFees ==
    /\ Ready
    /\ \E sender \in Users, to \in Users \cup {ZeroAddress} :
        LET quote == withdrawFees(st, WithdrawFeesCall(sender, to), Quiet)
        IN  \E env \in (IF quote.err = OK THEN CallbackEnvs(st, to) ELSE {Quiet}) :
                Transact(WithdrawFeesCall(sender, to), env)

\* a holder moves one token to another holder
TokenTransfer ==
    /\ Ready
    /\ \E from \in Users, to \in Users, token \in 1..MaxTokens :
        \E r \in {transfer(st, token, from, to, Tokens(1))} :
            /\ token <= Len(st.memeTokenAddresses)
            /\ st' = r.s
            /\ last' = [NoLast EXCEPT
                          !.call = [NoCall EXCEPT !.op = "transfer", !.sender = from,
                                                  !.to = to, !.token = token, !.qty = One],
                          !.err = r.err, !.pre = st]
            /\ ops' = ops + 1

\* the caller takes the outcome of its call; the next transaction can start
Return ==
    /\ last # NoLast
    /\ last' = NoLast
    /\ UNCHANGED <<st, ops>>

Next ==
    \/ Return
    \/ CreateMemeToken
    \/ BuyMemeToken
    \/ SellMemeToken
    \/ SetListingFee
    \/ WithdrawProtocolFees
    \/ WithdrawFees
    \/ TokenTransfer

Spec == Init /\ [][Next]_vars
\* a run that starts with an asset on which one token has been bought: alice
\* has created asset 1 and bought one token of it, the listing fee being 0;
\* MaxOps - 1 calls follow
Listed == createMemeToken(Deployed(Zero), CreateCall("alice", MEMETOKEN_CREATION_FEE)).s
TradedOnce == buyMemeToken(Listed, BuyCall("alice", 1, One, AmplePayment), Quiet).s

InitTraded ==
    /\ st = TradedOnce
    /\ last = NoLast
    /\ ops = 1

SpecTraded == InitTraded /\ [][Next]_vars

\* ------------------------------------------------------------ quotes
\* runs of quotes: asset 1 has been created by alice, who has bought n tokens
\* of it (all of the curve for n = 800000, which launches it); asset 2 does
\* not exist; these are the two calls made when the quotes begin
QuoteSupplies == {0, 1, 3, 400000, 799999, 800000}

QuoteStates ==
    {buyMemeToken(Listed, BuyCall("alice", 1, FromNat(n), AmplePayment), Quiet).s :
        n \in QuoteSupplies}

InitQuote ==
    /\ st \in QuoteStates
    /\ last = NoLast
    /\ ops = 2

\* what k tokens cost at supply currentRaw, fee included
TotalFor(currentRaw, k) ==
    Add(Cost(currentRaw, Tokens(k)), TradingFee(Cost(currentRaw, Tokens(k))))

\* the amounts asked about: nothing, one unit, round amounts and the exact
\* price of 1, 2 and 10 tokens
EthChoices(s, token) ==
    {Zero, One, OneEther, Tokens(200000)}
    \cup {TotalFor(s.curveSupply[token], k) : k \in {1, 2, 10}}

\* a caller asks how many tokens an amount buys
QuoteTokens ==
    /\ Ready
    /\ \E token \in TokenAddrs :
        \E ethAmount \in EthChoices(st, token) :
          \E r \in {calculateTokenAmountFromEth(st, QuoteCall("alice", token, ethAmount))} :
            /\ last' = [NoLast EXCEPT !.call = QuoteCall("alice", token, ethAmount),
                                      !.err = r.err, !.ret = r.ret, !.pre = st]
            /\ ops' = ops + 1
            /\ UNCHANGED st

\* calculateCost as the public function any caller can ask: c.value is its
\* currentRaw and c.qty its amountRaw
CostCall(sender, currentRaw, amountRaw) ==
    [NoCall EXCEPT !.op = "calculateCost", !.sender = sender,
                   !.value = currentRaw, !.qty = amountRaw]

calculateCostCalled(s, c) ==
    IF calculateCostFaults(c.value, c.qty) THEN Revert(s, ErrPanic)
    ELSE [Revert(s, OK) EXCEPT !.ret = Cost(c.value, c.qty)]

\* the supplies and amounts asked about, in raw units: whole tokens at both
\* ends and in the middle of the curve, and amounts below one token
CostSupplies ==
    {Zero, One, Tokens(1), Tokens(2), Tokens(400000), Tokens(799997), Tokens(799998)}
CostAmounts ==
    {One, FromNat(204046), FromNat(204047), Tokens(1), Tokens(2), Tokens(3),
     Tokens(400000), Tokens(799998)}

\* a caller asks the cost of an amount at a supply
QuoteCost ==
    /\ Ready
    /\ \E currentRaw \in CostSupplies, amountRaw \in CostAmounts :
          \E r \in {calculateCostCalled(st, CostCall("alice", currentRaw, amountRaw))} :
            /\ last' = [NoLast EXCEPT !.call = CostCall("alice", currentRaw, amountRaw),
                                      !.err = r.err, !.ret = r.ret, !.pre = st]
            /\ ops' = ops + 1
            /\ UNCHANGED st

NextQuote ==
    \/ Return
    \/ QuoteTokens
    \/ QuoteCost

SpecQuote == InitQuote /\ [][NextQuote]_vars

\* ------------------------------------------------------------ properties
\* the assets created so far
Created(s) == 1..Len(s.memeTokenAddresses)

\* MAX_SUPPLY - INIT_SUPPLY, the cap of the curve
MaxCurveRaw == Sub(MAX_SUPPLY, INIT_SUPPLY)

IsLaunched(s, t) == s.addressToMemeToken[t].isLaunched
FundingRaised(s, t) == s.addressToMemeToken[t].fundingRaised

\* the storage the call that just ran found; the storage itself when no call
\* is pending
s0 == IF last = NoLast THEN st ELSE last.pre

\* the call that just ran is a call of op
Called(op) == last # NoLast /\ last.call.op = op

\* what a call may not change when it fails
SameLedger(s1, s2) == s1 = s2

\* C1: in every reachable state the reserve of an un-launched asset covers the
\* gross refund owed for its whole curve supply:
\* fundingRaised >= calculateRefund(curveSupply, curveSupply)
C1_Solvency ==
    \A t \in Created(st) :
        ~IsLaunched(st, t) =>
            Ge(FundingRaised(st, t), Refund(st.curveSupply[t], st.curveSupply[t]))

\* C2: between calls no asset is un-launched while its reserve has reached the
\* goal or its curve supply the cap, so a buy that reaches either has launched
\* the asset when it returns
C2_GraduationInsideBuy ==
    \A t \in Created(st) :
        (Ge(FundingRaised(st, t), MEMECOIN_FUNDING_GOAL)
         \/ Ge(st.curveSupply[t], MaxCurveRaw)) => IsLaunched(st, t)

\* a buy has just returned with its asset's curve supply at the cap, launched
C2_Witness ==
    /\ last.call.op = "buyMemeToken"
    /\ last.err = OK
    /\ last.call.token \in Created(st)
    /\ st.curveSupply[last.call.token] = MaxCurveRaw
    /\ IsLaunched(st, last.call.token)
    /\ Len(last.events) = 2

\* C3: once an asset is launched, every step by any caller leaves it launched,
\* its reserve at 0 and its curve supply at the value it had
C3_LaunchedAbsorbing ==
    (  \A t \in Created(s0) :
          IsLaunched(s0, t) =>
              /\ IsLaunched(st,  t)
              /\ FundingRaised(s0, t) = Zero
              /\ FundingRaised(st,  t) = Zero
              /\ st.curveSupply[t]  = s0.curveSupply[t])

\* an operation has succeeded while some asset was already launched
C3_Witness ==
    /\ last # NoLast
    /\ last.err = OK
    /\ Len(last.events) < 2
    /\ \E t \in Created(st) : IsLaunched(st, t)

AlreadyLaunched == "Launched: use Uniswap"
TradeOps == {"buyMemeToken", "sellMemeToken"}

\* the nested calls of the call that just ran which are trades on an asset
\* launched before that call
NestedTradesOnLaunched ==
    {i \in DOMAIN last.nested :
        /\ last.nested[i].call.op \in TradeOps
        /\ last.nested[i].call.token \in Created(st)
        /\ IsLaunched(st, last.nested[i].call.token)
        /\ Len(last.events) < 2}

\* C4 as stated: every buy and every sell on a launched asset, whoever makes it
\* and from wherever, fails with AlreadyLaunched
C4_EveryTradeFailsAsLaunched ==
    /\ (/\ last.call.op \in TradeOps
        /\ last.call.token \in Created(st)
        /\ IsLaunched(st, last.call.token)
        /\ Len(last.events) < 2) => last.err = AlreadyLaunched
    /\ \A i \in NestedTradesOnLaunched : last.nested[i].err = AlreadyLaunched

\* C4: a buy or a sell on a launched asset made while no call of the engine is
\* in flight fails with AlreadyLaunched, for any caller, quantity and payment,
\* and changes nothing; made from inside a call in flight it changes nothing
\* either, and fails with the reentrant-call error
C4_LaunchedRejectsTrades ==
    (  /\ \A op \in TradeOps :
            (/\ Called(op)
             /\ last.call.token  \in Created(s0)
             /\ IsLaunched(s0, last.call.token))
            => /\ last.err  = AlreadyLaunched
               /\ SameLedger(s0, st)
               /\ last.events  = << >>
               /\ last.paid  = Zero
       /\ \A i \in DOMAIN last.nested  :
            (/\ last.nested[i].call.op  \in TradeOps
             /\ last.nested[i].call.token  \in Created(s0)
             /\ IsLaunched(s0, last.nested[i].call.token))
            => /\ last.nested[i].err  = ErrReentrant
               /\ ~last.nested[i].changed)

\* a sell and a buy on a launched asset have been rejected
C4_Witness ==
    /\ last.call.op \in TradeOps
    /\ last.err = AlreadyLaunched
    /\ IsLaunched(st, last.call.token)
    /\ Gt(last.call.qty, Zero)

GuardedOps == {"createMemeToken", "buyMemeToken", "sellMemeToken",
               "withdrawProtocolFees", "withdrawFees"}
OwnerOps == {"withdrawProtocolFees", "withdrawFees"}

\* C5 as stated: a nested call of a guarded operation is rejected with the
\* reentrant-call error and changes nothing
C5_NestedFailsAsReentrant ==
    \A i \in DOMAIN last.nested :
        last.nested[i].call.op \in GuardedOps =>
            /\ last.nested[i].err = ErrReentrant
            /\ ~last.nested[i].changed

\* C5: a nested call of a guarded operation changes nothing and is rejected:
\* with the reentrant-call error, except that a withdrawal called by another
\* than the owner is rejected with "Not owner", the owner test coming first
C5_NestedRejected ==
    \A i \in DOMAIN last.nested :
        last.nested[i].call.op \in GuardedOps =>
            /\ last.call.op \in GuardedOps
            /\ ~last.nested[i].changed
            /\ last.nested[i].err =
                 IF last.nested[i].call.op \in OwnerOps
                    /\ last.nested[i].call.sender # Owner
                 THEN "Not owner" ELSE ErrReentrant

\* a buy made from the payout callback of a sell has been rejected
C5_Witness ==
    /\ last.call.op = "sellMemeToken"
    /\ last.err = OK
    /\ \E i \in DOMAIN last.nested :
         /\ last.nested[i].call.op = "buyMemeToken"
         /\ last.nested[i].err = ErrReentrant

PoolErrors == {"createPair failed", "addLiquidityETH failed", "No liquidity minted",
               "LP transfer failed"}

\* C6: a graduating buy whose pool step fails (pair creation, the deposit, a
\* zero receipt, the transfer of the receipt) fails as a whole: the storage is
\* what it was, so the asset is not launched, its reserve is not zeroed and no
\* listing fee is taken; there is no event; and, the engine still holding the
\* asset's reserve, the same buy with a working pool succeeds and launches
C6_GraduationAllOrNothing ==
    (  (Called("buyMemeToken") /\ last.env.pool  # "ok") =>
          /\ last.err  \in PoolErrors
          /\ SameLedger(s0, st)
          /\ ~IsLaunched(st,  last.call.token)
          /\ last.events  = << >>
          /\ last.paid  = Zero
          /\ Ge(st.balance,  FundingRaised(st,  last.call.token))  =>
               \E retry \in {buyMemeToken(st,  last.call,  Quiet)} :
                   /\ retry.err = OK
                   /\ IsLaunched(retry.s, last.call.token)
                   /\ Len(retry.events) = 2)

\* a buy that had reached the cap has failed in the pool and left the asset
\* trading below the cap
C6_Witness ==
    /\ last.call.op = "buyMemeToken"
    /\ last.err = "LP transfer failed"
    /\ ~IsLaunched(st, last.call.token)
    /\ Lt(st.curveSupply[last.call.token], MaxCurveRaw)
    /\ st.protocolFeeBalance = MEMETOKEN_CREATION_FEE

\* C7: when the recipient of the refund of a buy, of the payout of a sell or of
\* a withdrawal does not accept it, the call fails ("Refund failed" for the
\* buy, "SEI transfer failed" for the others) and the storage, with the curve
\* supply, the reserve, the fees, the launch flag and every token balance, is
\* what it was before the call
C7_FailedPayoutFailsCall ==
    (  (/\ last # NoLast
        /\ ~last.env.accept
        /\ \E delivered \in {Dispatch(s0, last.call,  Quiet)} :
              /\ delivered.err = OK
              /\ last.call.op  = "buyMemeToken" => Gt(delivered.paid, Zero))
       => /\ last.call.op  \in {"buyMemeToken", "sellMemeToken",
                                "withdrawProtocolFees", "withdrawFees"}
          /\ last.err  = (IF last.call.op  = "buyMemeToken" THEN "Refund failed"
                          ELSE "SEI transfer failed")
          /\ SameLedger(s0, st)
          /\ last.events  = << >>
          /\ last.paid  = Zero)

\* the seller of a token has refused the payout and the sell has failed
C7_Witness ==
    /\ last.call.op = "sellMemeToken"
    /\ ~last.env.accept
    /\ last.err = "SEI transfer failed"
    /\ Gt(st.balances[last.call.token][last.call.sender], Zero)

\* a buy of qty of an asset with s on its curve: what it asks for, what the
\* curve has left, buyRaw = min of the two, c = calculateCost(s, buyRaw),
\* f = floor(c * 100 / 10000) and the charge c + f
Pricing(s, qty) ==
    LET requested == Mul(qty, DECIMALS)
        available == Sub(MaxCurveRaw, s)
        buyRaw    == IF Gt(requested, available) THEN available ELSE requested
        c         == Cost(s, buyRaw)
        f         == DivSmall(Mul(c, FromNat(100)), 10000)
    IN  [requested |-> requested, available |-> available, buyRaw |-> buyRaw,
         c |-> c, f |-> f, charge |-> Add(c, f)]

\* the call that just ran is a buy the engine prices: on a trading asset with
\* room on its curve, for a quantity that is not zero and fits uint256; p is
\* its pricing
PricedBuy(p) ==
    /\ Called("buyMemeToken")
    /\ last.call.token  \in Created(s0)
    /\ ~IsLaunched(s0, last.call.token)
    /\ Gt(p.available, Zero)
    /\ Le(p.requested, MAX_UINT256)
    /\ Gt(p.buyRaw, Zero)

\* the one event of a buy that did not graduate, or the first of one that did
BoughtEvent(call, p) ==
    [name |-> "TokenBought", tokenAddress |-> call.token, who |-> call.sender,
     tokenQty |-> DivDecimals(p.buyRaw), amount |-> p.charge]

\* C8: a successful buy that does not graduate leaves curveSupply = s + buyRaw,
\* the reserve increased by c, the fee balance by f = floor(c * 100 / 10000)
\* and the caller's token balance by buyRaw, pays msg.value - (c + f) back to
\* the caller and emits one TokenBought carrying buyRaw / 1e18 and c + f
C8_BuyEffect ==
    (  (Called("buyMemeToken") /\ last.err  = OK /\ Len(last.events)  = 1) =>
          \E call \in {last.call} :
            \E p \in {Pricing(s0.curveSupply[call.token], call.qty)} :
              /\ st.curveSupply[call.token]  = Add(s0.curveSupply[call.token], p.buyRaw)
              /\ FundingRaised(st,  call.token) = Add(FundingRaised(s0, call.token), p.c)
              /\ st.protocolFeeBalance  = Add(s0.protocolFeeBalance, p.f)
              /\ st.balances[call.token][call.sender]  =
                    Add(s0.balances[call.token][call.sender], p.buyRaw)
              /\ Ge(call.value, p.charge)
              /\ last.paid  = Sub(call.value, p.charge)
              /\ last.events  = <<BoughtEvent(call, p)>>)

\* a buy of two tokens has succeeded, with a refund, and the asset still trades
C8_Witness ==
    /\ last.call.op = "buyMemeToken"
    /\ last.err = OK
    /\ Len(last.events) = 1
    /\ last.events[1].tokenQty = FromNat(2)
    /\ Gt(last.paid, Zero)
    /\ ~IsLaunched(st, last.call.token)

\* C9: a buy that asks for more than the curve has left fills exactly what is
\* left, is charged the cost of that and the fee on that cost only, gets back
\* msg.value less that charge, and launches the asset in the same call; it
\* succeeds when its payment covers the charge, the called contracts
\* co-operate and the engine holds the asset's reserve
C9_PartialFill ==
    (  Called("buyMemeToken") =>
          \E call \in {last.call} :
            \E p \in {Pricing(s0.curveSupply[call.token], call.qty)} :
              /\ (PricedBuy(p) /\ Gt(p.requested, p.available) /\ last.err  = OK) =>
                    /\ st.curveSupply[call.token]  = MaxCurveRaw
                    /\ st.balances[call.token][call.sender]  =
                          Add(s0.balances[call.token][call.sender], p.available)
                    /\ Ge(call.value, p.charge)
                    /\ last.paid  = Sub(call.value, p.charge)
                    /\ Len(last.events)  = 2
                    /\ last.events[1]  = BoughtEvent(call, p)
                    /\ last.events[2].name  = "TokenLaunched"
                    /\ st.protocolFeeBalance  =
                          Add(Add(s0.protocolFeeBalance, p.f),
                              last.events[2].listingFeeTaken)
                    /\ IsLaunched(st,  call.token)
              /\ (/\ PricedBuy(p)
                  /\ Gt(p.requested, p.available)
                  /\ Ge(call.value, p.charge)
                  /\ last.env.accept
                  /\ last.env.pool  = "ok"
                  /\ Ge(s0.balance, FundingRaised(s0, call.token)))
                 => last.err  = OK)

\* the example: with 799,999 tokens on the curve a buy of 10 has filled 1 and
\* launched the asset
C9_Witness ==
    /\ last.call.op = "buyMemeToken"
    /\ last.call.qty = FromNat(10)
    /\ last.err = OK
    /\ Len(last.events) = 2
    /\ last.events[1].tokenQty = One
    /\ st.curveSupply[last.call.token] = Tokens(800000)
    /\ IsLaunched(st, last.call.token)

\* C10: a buy that pays less than c + floor(c * 100 / 10000), c being the curve
\* cost of the clamped quantity, fails with "Insufficient SEI sent" and leaves
\* the storage, with the curve supply, the reserve, the fees, the launch flag
\* and every token balance, as it was
C10_UnderpaidBuy ==
    (  Called("buyMemeToken") =>
          \E call \in {last.call} :
            \E p \in {Pricing(s0.curveSupply[call.token], call.qty)} :
              (PricedBuy(p) /\ Lt(call.value, p.charge)) =>
                  /\ last.err  = "Insufficient SEI sent"
                  /\ SameLedger(s0, st)
                  /\ last.events  = << >>
                  /\ last.paid  = Zero)

\* a buy one unit short of its charge has been rejected
C10_Witness ==
    /\ last.call.op = "buyMemeToken"
    /\ last.err = "Insufficient SEI sent"
    /\ Gt(last.call.value, Zero)
    /\ Gt(last.call.qty, Zero)

\* a sell of qty of an asset with s on its curve: q = qty * 1e18,
\* r = calculateRefund(s, q), f = floor(r * 100 / 10000) and the net r - f
SellPricing(s, qty) ==
    LET q == Mul(qty, DECIMALS)
        r == Refund(s, q)
        f == DivSmall(Mul(r, FromNat(100)), 10000)
    IN  [q |-> q, r |-> r, f |-> f, net |-> Sub(r, f)]

\* C11: a successful sell leaves curveSupply = s - q, the reserve decreased by
\* r = calculateRefund(s, q), the fee balance increased by f = floor(r * 100 /
\* 10000) and the caller's token balance decreased by q, pays the caller r - f,
\* returns r - f, emits one TokenSold and leaves the asset un-launched
C11_SellEffect ==
    (  (Called("sellMemeToken") /\ last.err  = OK) =>
          \E call \in {last.call} :
            \E p \in {SellPricing(s0.curveSupply[call.token], call.qty)} :
              /\ Ge(s0.curveSupply[call.token], p.q)
              /\ Add(st.curveSupply[call.token],  p.q) = s0.curveSupply[call.token]
              /\ Add(FundingRaised(st,  call.token), p.r) = FundingRaised(s0, call.token)
              /\ st.protocolFeeBalance  = Add(s0.protocolFeeBalance, p.f)
              /\ Add(st.balances[call.token][call.sender],  p.q) =
                    s0.balances[call.token][call.sender]
              /\ Add(st.totalSupply[call.token],  p.q) = s0.totalSupply[call.token]
              /\ last.paid  = p.net
              /\ last.ret  = p.net
              /\ Add(st.balance,  p.net) = s0.balance
              /\ last.events  =
                    <<[name |-> "TokenSold", tokenAddress |-> call.token,
                       who |-> call.sender, tokenQty |-> call.qty, amount |-> p.net]>>
              /\ ~IsLaunched(st,  call.token))

\* a sell of two tokens has succeeded and paid its seller
C11_Witness ==
    /\ last.call.op = "sellMemeToken"
    /\ last.err = OK
    /\ last.call.qty = FromNat(2)
    /\ Gt(last.paid, Zero)
    /\ Len(last.events) = 1

\* C12: a sell whose gross refund calculateRefund(curveSupply, q) exceeds the
\* reserve of the asset fails with "Insufficient curve SEI" and changes
\* nothing, so that a sell that succeeds takes from the reserve no more than
\* it holds
C12_FailClosedReserve ==
    (  Called("sellMemeToken") =>
          \E call \in {last.call} :
            \E q \in {Mul(call.qty, DECIMALS)} :
              /\ (/\ call.token \in Created(s0)
                  /\ ~IsLaunched(s0, call.token)
                  /\ Le(q, MAX_UINT256)
                  /\ Ge(s0.balances[call.token][call.sender], q)
                  /\ Ge(s0.curveSupply[call.token], q)
                  /\ Gt(Refund(s0.curveSupply[call.token], q),
                        FundingRaised(s0, call.token)))
                 => /\ last.err  = "Insufficient curve SEI"
                    /\ SameLedger(s0, st)
                    /\ last.events  = << >>
                    /\ last.paid  = Zero
              /\ last.err  = OK =>
                    /\ Ge(FundingRaised(s0, call.token),
                          Refund(s0.curveSupply[call.token], q))
                    /\ Add(FundingRaised(st,  call.token),
                           Refund(s0.curveSupply[call.token], q)) =
                          FundingRaised(s0, call.token))

\* the holder of the whole curve supply, bought in two buys, has tried to sell
\* it and the reserve was one unit short
C12_Witness ==
    /\ last.call.op = "sellMemeToken"
    /\ last.err = "Insufficient curve SEI"
    /\ st.balances[last.call.token][last.call.sender] = st.curveSupply[last.call.token]
    /\ last.call.qty = FromNat(3)

\* C13: a sell of more tokens than the caller holds, or than the curve has
\* issued, is rejected and changes nothing; every sell that pays out burns
\* exactly the quantity sold from the balance of the caller it pays
C13_SellOnlyHeld ==
    (  Called("sellMemeToken") =>
          \E call \in {last.call} :
            \E q \in {Mul(call.qty, DECIMALS)} :
              /\ (/\ call.token \in Created(s0)
                  /\ ~IsLaunched(s0, call.token)
                  /\ Le(q, MAX_UINT256)
                  /\ \/ Gt(q, s0.balances[call.token][call.sender])
                     \/ Gt(q, s0.curveSupply[call.token]))
                 => /\ last.err  \in {"Insufficient balance", "Curve supply too low"}
                    /\ SameLedger(s0, st)
                    /\ last.paid  = Zero
                    /\ last.events  = << >>
              /\ (last.err  = OK \/ Gt(last.paid,  Zero))
                 => /\ Ge(s0.balances[call.token][call.sender], q)
                    /\ Add(st.balances[call.token][call.sender],  q) =
                          s0.balances[call.token][call.sender]
                    /\ Add(st.totalSupply[call.token],  q) = s0.totalSupply[call.token]
                    /\ \A h \in Holders \ {call.sender} :
                          st.balances[call.token][h]  = s0.balances[call.token][h])

\* a caller holding fewer tokens than it offers has been turned away
C13_Witness ==
    /\ last.call.op = "sellMemeToken"
    /\ last.err = "Insufficient balance"
    /\ Gt(st.curveSupply[last.call.token], Zero)
    /\ Le(Mul(last.call.qty, DECIMALS), st.curveSupply[last.call.token])

\* C14: when a caller buys q >= 1 whole tokens of a trading asset without
\* graduating it and sells the same q at once, the sell succeeds and pays
\* strictly less than the buy charged, and the difference is the fee of the
\* buy plus the fee of the sell
C14_RoundTripLeak ==
    (  (/\ Called("buyMemeToken")
        /\ last.err  = OK
        /\ ~IsLaunched(st,  last.call.token))  =>
          \E call \in {last.call},  s1 \in {st} :
            \E p \in {Pricing(s0.curveSupply[call.token], call.qty)} :
              \E r \in {sellMemeToken(s1, SellCall(call.sender, call.token, call.qty), Quiet)} :
                \E sellFee \in {Sub(r.s.protocolFeeBalance, s1.protocolFeeBalance)} :
                  /\ Ge(call.qty, One)
                  /\ p.buyRaw = p.requested
                  /\ r.err = OK
                  /\ Lt(r.paid, p.charge)
                  /\ Sub(p.charge, r.paid) = Add(p.f, sellFee)
                  /\ sellFee = DivSmall(Mul(Add(r.paid, sellFee), FromNat(100)), 10000)
                  /\ Gt(p.f, Zero) /\ Gt(sellFee, Zero)
                  /\ r.s.curveSupply = s0.curveSupply
                  /\ FundingRaised(r.s, call.token) = FundingRaised(s0, call.token))

\* a caller has bought two tokens at the start of the curve and sold them back:
\* the curve and the reserve are empty again and both fees stay with the engine
C14_Witness ==
    /\ last.call.op = "sellMemeToken"
    /\ last.err = OK
    /\ last.call.qty = FromNat(2)
    /\ st.curveSupply[last.call.token] = Zero
    /\ FundingRaised(st, last.call.token) = Zero
    /\ Lt(last.paid, Cost(Zero, Tokens(2)))
    /\ \E base \in {Zero, MEMETOKEN_CREATION_FEE} :
          st.protocolFeeBalance =
              Add(base, Mul(FromNat(2), TradingFee(Cost(Zero, Tokens(2)))))

\* C15: the curve supply of every asset is at most MAX_SUPPLY - INIT_SUPPLY in
\* every reachable state
C15_SupplyCap ==
    \A t \in TokenAddrs : Le(st.curveSupply[t], MaxCurveRaw)

\* a buy asking for more than the curve had left has been filled up to the cap
C15_Witness ==
    /\ last.call.op = "buyMemeToken"
    /\ last.err = OK
    /\ st.curveSupply[last.call.token] = MaxCurveRaw
    /\ Lt(last.events[1].tokenQty, last.call.qty)

\* what all holders of an asset's token hold together
HeldSupply(s, t) ==
    Add(Add(s.balances[t]["owner"], s.balances[t]["alice"]),
        Add(s.balances[t][Factory], s.balances[t][Pair]))

\* C16: the total supply of every created asset's token is INIT_SUPPLY plus
\* its curve supply and at most MAX_SUPPLY; INIT_SUPPLY is minted once, to the
\* engine, by the creation; afterwards the total supply changes only in a
\* successful buy (up) or sell (down) of that asset, and the Token takes
\* setFactory, mint and burn from no user
C16_TokenSupply ==
    /\   (\A t \in TokenAddrs :
            IF t \in Created(st)
            THEN /\ st.totalSupply[t] = Add(INIT_SUPPLY, st.curveSupply[t])
                 /\ Le(st.totalSupply[t], MAX_SUPPLY)
                 /\ HeldSupply(st, t) = st.totalSupply[t]
                 /\ st.tokenFactory[t] = Factory
                 /\ \A u \in Users :
                      /\ tokenSetFactory(st, t, u).err = "Factory already set"
                      /\ tokenMint(st, t, u, One, u).err = "Not factory"
                      /\ tokenBurn(st, t, u, One, u).err = "Not factory"
            ELSE /\ st.totalSupply[t] = Zero
                 /\ HeldSupply(st, t) = Zero)
    /\ (  \A t \in TokenAddrs :
            /\ (t \in Created(st)  \ Created(s0)) =>
                  /\ Called("createMemeToken")
                  /\ st.totalSupply[t]  = INIT_SUPPLY
                  /\ st.balances[t][Factory]  = INIT_SUPPLY
            /\ (t \in Created(s0) /\ st.totalSupply[t]  # s0.totalSupply[t]) =>
                  /\ last.err  = OK
                  /\ last.call.token  = t
                  /\ \/ Called("buyMemeToken") /\ Gt(st.totalSupply[t],  s0.totalSupply[t])
                     \/ Called("sellMemeToken") /\ Lt(st.totalSupply[t],  s0.totalSupply[t])
         )

\* tokens have been minted by a buy and some of them burned by a sell
C16_Witness ==
    /\ last.call.op = "sellMemeToken"
    /\ last.err = OK
    /\ Gt(last.call.qty, Zero)
    /\ Gt(st.curveSupply[last.call.token], Zero)
    /\ st.totalSupply[last.call.token] =
          Add(INIT_SUPPLY, st.curveSupply[last.call.token])

\* the TokenLaunched events for asset t that the call just run has emitted
LaunchEvents(receipt, t) ==
    {i \in DOMAIN receipt.events :
        /\ receipt.events[i].name = "TokenLaunched"
        /\ receipt.events[i].tokenAddress = t}

\* C17: the launch flag of an asset changes only from false to true and only
\* in a successful buy of that asset; no sell, creation, setListingFee,
\* withdrawal or token transfer changes it; the pool of an asset receives a
\* deposit, and TokenLaunched is emitted for it, only in the step that
\* launches it, once, so at most once over any run
C17_GraduationOnce ==
    (  \A t \in TokenAddrs :
          /\ (IsLaunched(st,  t) # IsLaunched(s0, t)) =>
                /\ Called("buyMemeToken")
                /\ last.err  = OK
                /\ last.call.token  = t
                /\ ~IsLaunched(s0, t)
                /\ IsLaunched(st,  t)
                /\ Cardinality(LaunchEvents(last,  t)) = 1
                /\ ~s0.pair[t].exists
                /\ st.pair[t].exists
                /\ Gt(st.pair[t].reserveETH,  Zero)
          /\ (st.pair[t]  # s0.pair[t] \/ LaunchEvents(last,  t) # {}) =>
                /\ ~IsLaunched(s0, t)
                /\ IsLaunched(st,  t)
          /\ (last  # NoLast /\ last.call.op  # "buyMemeToken") =>
                IsLaunched(st,  t) = IsLaunched(s0, t))

\* an asset has been launched by a buy and a later sell of it has been refused:
\* its pool still holds the one deposit
C17_Witness ==
    /\ last.call.op = "sellMemeToken"
    /\ last.err = AlreadyLaunched
    /\ IsLaunched(st, last.call.token)
    /\ st.pair[last.call.token].reserveToken = INIT_SUPPLY
    /\ Gt(st.pair[last.call.token].reserveETH, Zero)

\* C18: in the buy that launches an asset, with R the reserve just before the
\* graduation (the reserve before the buy plus the curve cost of the buy) and
\* L the listing fee, the listing fee taken is L when L > 0 and R > L and 0
\* otherwise; the pool receives R less the fee taken, the protocol fees grow
\* by the trading fee of the buy plus the fee taken, and TokenLaunched carries
\* the pool amount and the fee taken
C18_ListingFee ==
    (  (/\ Called("buyMemeToken")
        /\ last.err  = OK
        /\ IsLaunched(st,  last.call.token))  =>
          \E call \in {last.call},  L \in {st.listingFee} :
            \E p \in {Pricing(s0.curveSupply[call.token], call.qty)} :
              \E R \in {Add(FundingRaised(s0, call.token), p.c)} :
                \E taken \in {IF Gt(L, Zero) /\ Gt(R, L) THEN L ELSE Zero} :
                  \E pooled \in {Sub(R, taken)} :
                    /\ Add(pooled, taken) = R
                    /\ st.pair[call.token].reserveETH  =
                          Add(s0.pair[call.token].reserveETH, pooled)
                    /\ st.protocolFeeBalance  =
                          Add(Add(s0.protocolFeeBalance, p.f), taken)
                    /\ FundingRaised(st,  call.token) = Zero
                    /\ Len(last.events)  = 2
                    /\ last.events[2]  =
                          [name |-> "TokenLaunched", tokenAddress |-> call.token,
                           ethForLP |-> pooled, listingFeeTaken |-> taken])

\* an asset has been launched with a listing fee below its reserve: the fee
\* was taken
C18_Witness ==
    /\ last.call.op = "buyMemeToken"
    /\ last.err = OK
    /\ Len(last.events) = 2
    /\ st.listingFee = OneEther
    /\ last.events[2].listingFeeTaken = OneEther
    /\ Gt(last.events[2].ethForLP, Tokens(100000))

\* C19: the buy that launches an asset moves exactly the pool amount of
\* TokenLaunched in native currency and exactly INIT_SUPPLY tokens from the
\* engine to the asset's pool, which exists afterwards, and sends the whole
\* liquidity receipt to the zero address in the same call; the engine never
\* holds any of the receipt between calls, and once an asset is launched no
\* call by anyone, the owner included, changes its pool or the locked receipt
C19_LiquidityLocked ==
    /\   (\A t \in TokenAddrs :
            /\ st.pair[t].lpFactory = Zero
            /\ IsLaunched(st, t) <=> Gt(st.pair[t].lpBurned, Zero)
            /\ IsLaunched(st, t) => st.balances[t][Factory] = Zero)
    /\ (  \A t \in TokenAddrs :
            /\ IsLaunched(s0, t) => st.pair[t]  = s0.pair[t]
            /\ (~IsLaunched(s0, t) /\ IsLaunched(st,  t)) =>
                  \E call \in {last.call},  lpEth \in {last.events[2].ethForLP} :
                    \E p \in {Pricing(s0.curveSupply[t], call.qty)} :
                      /\ Gt(lpEth, Zero)
                      /\ Add(st.balance,  lpEth) = Add(s0.balance, p.charge)
                      /\ s0.pair[t] = NoPair
                      /\ st.pair[t].exists
                      /\ st.pair[t].reserveETH  = lpEth
                      /\ st.pair[t].reserveToken  = INIT_SUPPLY
                      /\ s0.balances[t][Factory] = INIT_SUPPLY
                      /\ st.balances[t][Factory]  = Zero
                      /\ st.balances[t][Pair]  = INIT_SUPPLY
                      /\ st.pair[t].lpBurned  = LiquidityMinted(Quiet)
         )

\* after a launch the owner has drained the engine: the pool and the locked
\* receipt are as the launch left them
C19_Witness ==
    /\ last.call.op = "withdrawFees"
    /\ last.err = OK
    /\ st.balance = Zero
    /\ \E t \in Created(st) :
          /\ IsLaunched(st, t)
          /\ Gt(st.pair[t].reserveETH, Zero)
          /\ st.pair[t].reserveToken = INIT_SUPPLY
          /\ st.pair[t].lpFactory = Zero
          /\ Gt(st.pair[t].lpBurned, Zero)

\* C20: protocolFeeBalance decreases only in a successful
\* withdrawProtocolFees; such a call is made by the owner to a recipient that
\* is not the zero address while the balance is positive, pays the recipient
\* exactly the balance it found and leaves 0; a call by another sender, to the
\* zero address or on a zero balance fails and changes nothing
C20_FeeBalanceDiscipline ==
    (  \E before \in {s0.protocolFeeBalance}, after \in {st.protocolFeeBalance} :
          /\ Lt(after, before) =>
                /\ Called("withdrawProtocolFees")
                /\ last.err  = OK
          /\ (Called("withdrawProtocolFees") /\ last.err  = OK) =>
                /\ last.call.sender  = Owner
                /\ last.call.to  # ZeroAddress
                /\ Gt(before, Zero)
                /\ after = Zero
                /\ last.paid  = before
                /\ Add(st.balance,  before) = s0.balance
          /\ (/\ Called("withdrawProtocolFees")
              /\ \/ last.call.sender  # Owner
                 \/ last.call.to  = ZeroAddress
                 \/ before = Zero) =>
                /\ last.err  # OK
                /\ after = before
                /\ SameLedger(s0, st)
                /\ last.paid  = Zero)

\* the owner has withdrawn protocol fees that included trading fees
C20_Witness ==
    /\ last.call.op = "withdrawProtocolFees"
    /\ last.err = OK
    /\ st.protocolFeeBalance = Zero
    /\ Gt(last.paid, MEMETOKEN_CREATION_FEE)

\* C21: between calls the re-entrancy guard is in its not-entered state,
\* whatever the calls before did (succeeded, failed, failed in a callback,
\* rejected a nested call), and no top-level createMemeToken, buyMemeToken,
\* sellMemeToken, withdrawProtocolFees or withdrawFees is rejected as
\* re-entrant
C21_GuardReleased ==
    /\   (st.status = NOT_ENTERED)
    /\ (  (last # NoLast /\ last.call.op \in GuardedOps) =>
              last.err  # ErrReentrant)

\* a call that rejected a nested call has ended, after an earlier call, and
\* the guard is released
C21_Witness ==
    /\ last # NoLast
    /\ ops >= 2
    /\ \E i \in DOMAIN last.nested : last.nested[i].err = ErrReentrant
    /\ st.status = NOT_ENTERED

\* C22 as stated: the value a successful buy returns is the number of whole
\* tokens it filled
C22_BuyReturnsFilled ==
    (last.call.op = "buyMemeToken" /\ last.err = OK) =>
        last.ret = last.events[1].tokenQty

\* C22: the value a successful buy returns is totalRequired, the curve cost
\* of the tokens filled plus the fee, which is also the amount of TokenBought;
\* the number of whole tokens filled, buyRaw / 1e18, is the tokenQty of
\* TokenBought and the tokens minted to the caller, and is smaller than the
\* quantity asked for on a partial fill
C22_BuyReturnsCharge ==
    (  (Called("buyMemeToken") /\ last.err  = OK) =>
          \E call \in {last.call} :
            \E p \in {Pricing(s0.curveSupply[call.token], call.qty)} :
              /\ last.ret  = p.charge
              /\ last.events[1].amount  = last.ret
              /\ last.events[1].tokenQty  = DivDecimals(p.buyRaw)
              /\ Mul(last.events[1].tokenQty,  DECIMALS) = p.buyRaw
              /\ st.balances[call.token][call.sender]  =
                    Add(s0.balances[call.token][call.sender], p.buyRaw)
              /\ Lt(p.buyRaw, p.requested) => Lt(last.events[1].tokenQty,  call.qty)
              /\ last.ret  # last.events[1].tokenQty)

\* a buy of 800000 tokens has been filled with fewer and has returned what it
\* charged
C22_Witness ==
    /\ last.call.op = "buyMemeToken"
    /\ last.err = OK
    /\ last.call.qty = FromNat(800000)
    /\ Lt(last.events[1].tokenQty, last.call.qty)
    /\ last.ret = last.events[1].amount
    /\ Gt(last.ret, Tokens(100000))

\* what a quote works with: the supply s, the whole tokens left on the curve
\* and the net spend limit e = floor(ethAmount * 9900 / 10000)
QuoteTerms(s, c) ==
    [s         |-> s.curveSupply[c.token],
     maxTokens |-> ToNat(DivDecimals(Sub(MaxCurveRaw, s.curveSupply[c.token]))),
     e         |-> DivSmall(Mul(c.value, FromNat(9900)), 10000)]

\* C23: on an asset that is trading calculateTokenAmountFromEth returns a
\* whole quantity q <= maxTokens with calculateCost(s, q * 1e18) <= e, and
\* q = maxTokens or calculateCost(s, (q + 1) * 1e18) > e; it returns 0 when
\* ethAmount = 0 or maxTokens = 0
C23_InverseSolver ==
    (  (Called("calculateTokenAmountFromEth") /\ last.err  = OK) =>
          \E call \in {last.call},  q \in {ToNat(last.ret)} :
            \E qt \in {QuoteTerms(s0, call)} :
              /\ FromNat(q) = last.ret
              /\ q <= qt.maxTokens
              /\ Le(Cost(qt.s, Tokens(q)), qt.e)
              /\ q = qt.maxTokens \/ Gt(Cost(qt.s, Tokens(q + 1)), qt.e)
              /\ (call.value = Zero \/ qt.maxTokens = 0) => q = 0)

\* a quote has returned some of the tokens left and not all of them
C23_Witness ==
    /\ last.call.op = "calculateTokenAmountFromEth"
    /\ last.err = OK
    /\ ToNat(last.ret) > 1
    /\ ToNat(last.ret) < QuoteTerms(st, last.call).maxTokens

\* C24: the quantity q that calculateTokenAmountFromEth returns for ethAmount
\* is the most that ethAmount, as the whole payment, buys in the same state:
\* a buy of q >= 1 paying ethAmount is accepted, and unless q is all the whole
\* tokens left a buy of q + 1 paying ethAmount is rejected for insufficient
\* payment
C24_QuoteMatchesBuy ==
    (last.call.op = "calculateTokenAmountFromEth" /\ last.err = OK) =>
        \E q \in {ToNat(last.ret)}, qt \in {QuoteTerms(st, last.call)} :
          /\ q >= 1 =>
                buyMemeToken(st, BuyCall(last.call.sender, last.call.token,
                                         FromNat(q), last.call.value), Quiet).err = OK
          /\ q < qt.maxTokens =>
                buyMemeToken(st, BuyCall(last.call.sender, last.call.token,
                                         FromNat(q + 1), last.call.value), Quiet).err
                    = "Insufficient SEI sent"

\* a raw amount that is a number of whole tokens
IsWhole(raw) == Mul(DivDecimals(raw), DECIMALS) = raw

\* C26: for whole-token supplies s and whole-token quantities d >= 1 token
\* with s + d + 1 token <= MAX_SUPPLY - INIT_SUPPLY,
\* calculateCost(s, d) < calculateCost(s, d + 1 token) and
\* calculateCost(s, d) < calculateCost(s + 1 token, d)
C26_CostIncreasing ==
    (  (/\ Called("calculateCost")
        /\ IsWhole(last.call.value)
        /\ IsWhole(last.call.qty)
        /\ Ge(last.call.qty,  Tokens(1))
        /\ Le(Add(Add(last.call.value,  last.call.qty),  Tokens(1)), MaxCurveRaw)) =>
          \E s \in {last.call.value},  d \in {last.call.qty} :
            /\ last.err  = OK
            /\ last.ret  = calculateCost(s, d)
            /\ Lt(last.ret,  Cost(s, Add(d, Tokens(1))))
            /\ Lt(last.ret,  Cost(Add(s, Tokens(1)), d)))

\* the cost of the last token but one of the curve has been asked
C26_Witness ==
    /\ last.call.op = "calculateCost"
    /\ last.err = OK
    /\ last.call.value = Tokens(799998)
    /\ last.call.qty = Tokens(1)
    /\ Gt(last.ret, Zero)

\* C27 as stated: calculateCost(currentRaw, amountRaw) > 0 for every
\* currentRaw and every amountRaw > 0 with currentRaw + amountRaw within the
\* cap
C27_CostPositive ==
    (/\ last.call.op = "calculateCost"
     /\ Gt(last.call.qty, Zero)
     /\ Le(Add(last.call.value, last.call.qty), MaxCurveRaw)) =>
        (last.err = OK /\ Gt(last.ret, Zero))

\* C27: calculateCost(currentRaw, amountRaw) > 0 for every currentRaw and
\* every amountRaw of at least one whole token (1e18) with
\* currentRaw + amountRaw within the cap; a buy that succeeds charges more
\* than 0 for the tokens it mints
C27_WholeTokenCostPositive ==
    /\ (  (/\ Called("calculateCost")
           /\ Ge(last.call.qty,  Tokens(1))
           /\ Le(Add(last.call.value,  last.call.qty),  MaxCurveRaw)) =>
              (last.err  = OK /\ Gt(last.ret,  Zero)))
    /\   (\A t \in Created(st), k \in {1, 2} :
            \E r \in {buyMemeToken(st, BuyCall("alice", t, FromNat(k), AmplePayment), Quiet)} :
              r.err = OK =>
                /\ Gt(r.s.balances[t]["alice"], st.balances[t]["alice"])
                /\ Gt(r.ret, Zero)
                /\ Gt(Sub(r.ret, TradingFee(Cost(st.curveSupply[t],
                            Sub(r.s.curveSupply[t], st.curveSupply[t])))), Zero))

\* the cost of one token has been asked at a supply that is not a whole
\* number of tokens
C27_Witness ==
    /\ last.call.op = "calculateCost"
    /\ last.err = OK
    /\ last.call.value = One
    /\ last.call.qty = Tokens(1)
    /\ Gt(last.ret, Zero)

\* C28: a buy or a sell of asset A, with the graduation a buy may bring,
\* succeeding or failing, leaves of every other asset B the curve supply, the
\* record (reserve, launch flag, creator), the token balances and total
\* supply, the token's factory and the pool as they were
C28_CrossAssetFrame ==
    (  (last # NoLast /\ last.call.op \in TradeOps) =>
          \A b \in TokenAddrs \ {last.call.token} :
            /\ st.curveSupply[b]  = s0.curveSupply[b]
            /\ st.addressToMemeToken[b]  = s0.addressToMemeToken[b]
            /\ st.balances[b]  = s0.balances[b]
            /\ st.totalSupply[b]  = s0.totalSupply[b]
            /\ st.tokenFactory[b]  = s0.tokenFactory[b]
            /\ st.pair[b]  = s0.pair[b])

\* one of two assets has been bought up and launched; the other is as it was
\* created
C28_Witness ==
    /\ last.call.op = "buyMemeToken"
    /\ last.err = OK
    /\ Len(st.memeTokenAddresses) = 2
    /\ IsLaunched(st, last.call.token)
    /\ \E b \in Created(st) \ {last.call.token} :
          /\ ~IsLaunched(st, b)
          /\ st.curveSupply[b] = Zero
          /\ st.balances[b][Factory] = INIT_SUPPLY

\* C29: createMemeToken paid less than MEMETOKEN_CREATION_FEE fails and
\* changes nothing; paid the fee or more it appends exactly one asset, with
\* curve supply 0, reserve 0, not launched, created by the caller, whose
\* token has INIT_SUPPLY minted to the engine and nothing else and has the
\* engine as its locked factory, and protocolFeeBalance grows by the whole
\* payment
C29_Creation ==
    (  Called("createMemeToken") =>
          \E call \in {last.call},  t \in {Len(s0.memeTokenAddresses) + 1} :
            IF Lt(call.value, MEMETOKEN_CREATION_FEE)
            THEN /\ last.err  = "Creation fee required"
                 /\ SameLedger(s0, st)
                 /\ last.events  = << >>
            ELSE /\ last.err  = OK
                 /\ st.memeTokenAddresses  = Append(s0.memeTokenAddresses, t)
                 /\ Created(st)  = Created(s0) \cup {t}
                 /\ t \notin Created(s0)
                 /\ st.curveSupply[t]  = Zero
                 /\ st.addressToMemeToken[t]  =
                       [fundingRaised |-> Zero, tokenAddress |-> t,
                        creatorAddress |-> call.sender, isLaunched |-> FALSE]
                 /\ st.totalSupply[t]  = INIT_SUPPLY
                 /\ st.balances[t]  =
                       [h \in Holders |-> IF h = Factory THEN INIT_SUPPLY ELSE Zero]
                 /\ st.tokenFactory[t]  = Factory
                 /\ tokenSetFactory(st,  t, call.sender).err = "Factory already set"
                 /\ st.protocolFeeBalance  = Add(s0.protocolFeeBalance, call.value)
                 /\ st.balance  = Add(s0.balance, call.value)
                 /\ last.ret  = FromNat(t)
                 /\ \A b \in TokenAddrs \ {t} :
                       /\ st.addressToMemeToken[b]  = s0.addressToMemeToken[b]
                       /\ st.curveSupply[b]  = s0.curveSupply[b]
                       /\ st.balances[b]  = s0.balances[b])

\* a second asset has been created with a payment above the fee
C29_Witness ==
    /\ last.call.op = "createMemeToken"
    /\ last.err = OK
    /\ Gt(last.call.value, MEMETOKEN_CREATION_FEE)
    /\ Len(st.memeTokenAddresses) = 2
    /\ Ge(st.protocolFeeBalance, Add(MEMETOKEN_CREATION_FEE, last.call.value))

\* the reserves of all assets together
RECURSIVE FundingRaisedUpTo(_, _)
FundingRaisedUpTo(s, n) ==
    IF n = 0 THEN Zero ELSE Add(FundingRaisedUpTo(s, n - 1), FundingRaised(s, n))

TotalFundingRaised(s) == FundingRaisedUpTo(s, MaxTokens)

\* C30: after any sequence of operations, the owner's setListingFee,
\* withdrawProtocolFees and withdrawFees included, the native currency the
\* engine holds is at least the sum of fundingRaised over all assets
C30_ReservesBacked ==
    Ge(st.balance, TotalFundingRaised(st))

\* the engine's books balance: what it holds is the fees plus the reserves
Attributed(s) == s.balance = Add(s.protocolFeeBalance, TotalFundingRaised(s))

\* C31: the native currency the engine holds equals protocolFeeBalance plus the
\* sum of fundingRaised over all assets at construction, and every
\* createMemeToken, buyMemeToken (graduating or not), sellMemeToken,
\* setListingFee and withdrawProtocolFees call, successful or failed, and every
\* return from one, keeps it so (withdrawFees is outside the claim)
C31_ExactAccounting ==
    /\ ops = 0 => Attributed(st)
    /\ (  (Attributed(s0) /\ ~Called("withdrawFees")) => Attributed(st))

\* a buy has graduated its asset: the reserve has gone to the pool, overpayment
\* has been refunded, and what the engine still holds is exactly the fees
C31_Witness ==
    /\ Attributed(st)
    /\ last # NoLast
    /\ last.err = OK
    /\ last.call.op = "buyMemeToken"
    /\ IsLaunched(st, last.call.token)
    /\ Gt(last.call.value, last.ret)
    /\ Gt(st.protocolFeeBalance, MEMETOKEN_CREATION_FEE)
    /\ TotalFundingRaised(st) = Zero

\* the listing fee the graduation step takes when it reads `fee` with `raised`
\* in the reserve
ListingFeeDue(fee, raised) ==
    IF Gt(fee, Zero) /\ Gt(raised, fee) THEN fee ELSE Zero

\* C32: while a buyMemeToken is suspended in its overpayment-refund callback
\* every state-mutating entry point of the engine is rejected and changes
\* nothing, the refunded caller being the owner or not, so the call leaves
\* listingFee as it found it and its graduation step takes the listing fee that
\* was set when the call began
C32_NoChangeUnderBuy ==
    (  Called("buyMemeToken") =>
        \E r \in {last} : \E was \in {s0.listingFee} : \E now \in {st.listingFee} :
            /\ \A i \in DOMAIN r.nested :
                 r.nested[i].err # OK /\ ~r.nested[i].changed
            /\ now = was
            /\ (r.err = OK /\ Len(r.events) = 2) =>
                 \E taken \in {r.events[2].listingFeeTaken} :
                    \E lpEth \in {r.events[2].ethForLP} :
                        taken = ListingFeeDue(was, Add(lpEth, taken)))

\* C33: a buyMemeToken or sellMemeToken call with tokenQty = 0 is rejected,
\* reaches no payout call to the caller (no callback runs) and emits no
\* TokenBought or TokenSold event
C33_ZeroTradeRejected ==
    (last.call.op \in TradeOps /\ last.call.qty = Zero) =>
        /\ last.err # OK
        /\ last.events = << >>
        /\ last.nested = << >>

\* C34: for every tokenQty of the unsigned 256-bit range whose tokenQty * 1e18
\* exceeds what the curve has left, a buyMemeToken on a trading asset that pays
\* at least the charge for what is left, with the called contracts
\* co-operating, succeeds and fills exactly what is left; it never fails with
\* the arithmetic panic
C34_ClampCoversAll ==
    (  Called("buyMemeToken") =>
          \E call \in {last.call} : \E r \in {last} :
            \E p \in {Pricing(s0.curveSupply[call.token], call.qty)} :
              (/\ call.token \in Created(s0)
               /\ ~IsLaunched(s0, call.token)
               /\ Gt(p.available, Zero)
               /\ Gt(p.requested, p.available)
               /\ Ge(call.value, p.charge)
               /\ r.env.accept
               /\ r.env.pool = "ok"
               /\ Ge(s0.balance, FundingRaised(s0, call.token)))
              => /\ r.err = OK
                 /\ st.curveSupply[call.token]  = MaxCurveRaw
                 /\ r.events[1].tokenQty = DivDecimals(p.available))

\* calculateRefund(s + d, d) = calculateCost(s, d) for the sampled supplies and
\* amounts that stay on the curve; both functions are pure, so the samples are
\* evaluated once, before the first call
InverseOnSamples ==
    ops = 0 =>
        \A s \in CostSupplies, d \in CostAmounts :
            Le(Add(s, d), MaxCurveRaw) =>
                calculateRefund(Add(s, d), d) = calculateCost(s, d)

\* before is the state before a buy by call.sender that filled d raw units at
\* curve supply s, after the state after it: the refund for d at s + d is the
\* cost the buy was priced at, and the buyer's sell of d in after succeeds and
\* leaves the curve supply and the reserve of before
RoundTripRestores(before, after, call, s, d) ==
    \E r \in {sellMemeToken(after, SellCall(call.sender, call.token, DivDecimals(d)), Quiet)} :
        /\ Refund(Add(s, d), d) = Cost(s, d)
        /\ Add(FundingRaised(before, call.token), Refund(Add(s, d), d)) =
              FundingRaised(after, call.token)
        /\ r.err = OK
        /\ r.s.curveSupply[call.token] = s
        /\ FundingRaised(r.s, call.token) = FundingRaised(before, call.token)

\* C35 as stated: calculateRefund(s + d, d) = calculateCost(s, d) exactly, and
\* after every successful buy of d at supply s the buyer's immediate sell of d
\* brings curveSupply and fundingRaised back to what they were before the buy
C35_ExactInverse ==
    /\   InverseOnSamples
    /\ (  (Called("buyMemeToken") /\ last.err  = OK) =>
            \E call \in {last.call}, before \in {s0}, after \in {st} :
              \E p \in {Pricing(before.curveSupply[call.token], call.qty)} :
                RoundTripRestores(before, after, call,
                                  before.curveSupply[call.token], p.buyRaw))

\* C35: calculateRefund(s + d, d) = calculateCost(s, d) exactly, and after every
\* successful buy of d at supply s that does not graduate the asset the buyer's
\* immediate sell of d brings curveSupply and fundingRaised back to what they
\* were before the buy
C35_InverseUnlessGraduated ==
    /\   InverseOnSamples
    /\ (  (/\ Called("buyMemeToken")
           /\ last.err  = OK
           /\ ~IsLaunched(st,  last.call.token))  =>
            \E call \in {last.call}, before \in {s0}, after \in {st} :
              \E p \in {Pricing(before.curveSupply[call.token], call.qty)} :
                RoundTripRestores(before, after, call,
                                  before.curveSupply[call.token], p.buyRaw))

\* ten tokens bought at the start of the curve and sold back at once: the sell
\* paid the cost of the buy less the fee on it, and the curve and the reserve
\* are empty again
C35_Witness ==
    /\ last.call.op = "sellMemeToken"
    /\ last.err = OK
    /\ last.call.qty = FromNat(10)
    /\ Add(last.paid, TradingFee(Cost(Zero, Tokens(10)))) = Cost(Zero, Tokens(10))
    /\ st.curveSupply[last.call.token] = Zero
    /\ FundingRaised(st, last.call.token) = Zero

\* arguments of exp: zero, arguments small enough for the loop to leave early
\* on a zero term, and the exponents of supplies along the curve
ExpSamples ==
    {Zero, One, FromNat(1000000000), FromNat(2000000000), K, Add(K, One),
     Exponent(Tokens(2)), Exponent(Tokens(400000)), Exponent(Tokens(600000)),
     Exponent(Tokens(799999)), Exponent(Tokens(800000))}

ExpOfSample == [xx \in ExpSamples |-> exp(xx)]

\* C36: exp(0) = 1e18; exp(x) <= exp(y) whenever x <= y, arguments that leave
\* the loop early on a zero term included; and for currentRaw + amountRaw on
\* the curve calculateCost(currentRaw, amountRaw) does not abort, its exp1 is
\* at least its exp0, and the same holds of
\* calculateRefund(currentRaw + amountRaw, amountRaw) and, when
\* amountRaw <= currentRaw, of calculateRefund(currentRaw, amountRaw)
C36_ExpMonotone ==
    /\ exp(Zero) = DECIMALS
    /\ \A xx \in ExpSamples, yy \in ExpSamples :
          Le(xx, yy) => Le(ExpOfSample[xx], ExpOfSample[yy])
    /\ (last.call.op = "calculateCost"
          /\ Le(Add(last.call.value, last.call.qty), MaxCurveRaw)) =>
          \E s \in {last.call.value}, d \in {last.call.qty} :
            /\ last.err = OK
            /\ ~calculateCostFaults(s, d)
            /\ Le(exp(Exponent(s)), exp(Exponent(Add(s, d))))
            /\ ~calculateRefundFaults(Add(s, d), d)
            /\ Le(d, s) => ~calculateRefundFaults(s, d)

\* the cost of a fraction of a token on top of one unit of supply has been
\* asked: the exponents are so close that exp1 and exp0 can only be told apart
\* by the first-order term
C36_Witness ==
    /\ last.call.op = "calculateCost"
    /\ last.err = OK
    /\ last.call.value = One
    /\ last.call.qty = FromNat(204047)
    /\ exp(Exponent(One)) = DECIMALS
    /\ Le(exp(Exponent(One)), exp(Exponent(Add(One, FromNat(204047)))))

\* the least k with 2^k >= n, for n >= 1
RECURSIVE CeilLog2(_)
CeilLog2(n) == IF n <= 1 THEN 0 ELSE 1 + CeilLog2((n + 1) \div 2)

\* C37: in every calculateTokenAmountFromEth call that reaches the binary
\* search, each iteration strictly shrinks high - low, 0 <= low <= high <=
\* maxTokens holds whenever the loop condition is tested, the loop ends with
\* low = high, which is the value returned, and it makes at most
\* ceil(log2(maxTokens + 1)) iterations
C37_SolverTerminates ==
    (  (Called("calculateTokenAmountFromEth") /\ last.err  = OK) =>
          \E call \in {last.call},  ret \in {last.ret} :
            \E qt \in {QuoteTerms(s0, call)} :
              (qt.maxTokens > 0 /\ call.value # Zero) =>
                \E tr \in {searchTrace(qt.s, qt.e, 0, qt.maxTokens)} :
                  /\ \A i \in 1..Len(tr) :
                        0 <= tr[i][1] /\ tr[i][1] <= tr[i][2] /\ tr[i][2] <= qt.maxTokens
                  /\ \A i \in 1..(Len(tr) - 1) :
                        tr[i + 1][2] - tr[i + 1][1] < tr[i][2] - tr[i][1]
                  /\ tr[Len(tr)][1] = tr[Len(tr)][2]
                  /\ FromNat(tr[Len(tr)][1]) = ret
                  /\ Len(tr) - 1 <= CeilLog2(qt.maxTokens + 1))

\* a quote on an empty curve has taken the twenty iterations the bound allows
\* for 800,000 candidates, some of its midpoints accepted and some too expensive
C37_Witness ==
    /\ last.call.op = "calculateTokenAmountFromEth"
    /\ last.err = OK
    /\ \E qt \in {QuoteTerms(st, last.call)} :
          /\ qt.maxTokens = 800000
          /\ ToNat(last.ret) > 0
          /\ ToNat(last.ret) < qt.maxTokens
          /\ Len(searchTrace(qt.s, qt.e, 0, qt.maxTokens)) - 1 = CeilLog2(800001)
          /\ CeilLog2(800001) = 20
====
